---- MODULE Spec2Model ----
(***************************************************************************)
(* Model of CryptoContextImpl (src/pke/lib/cryptocontext.cpp): the three   *)
(* evaluation-key caches, the evaluation dispatch that reads them, and the *)
(* decryption entry points of the DCRTPoly instantiation.                  *)
(*                                                                         *)
(* A shared_ptr is a sequence of length at most one: <<>> is nullptr and   *)
(* <<obj>> points at obj.  A std::map is a function on the set of its      *)
(* keys.  A throw ends the call: the model records its kind in call.err    *)
(* and leaves everything else as it was.                                   *)
(***************************************************************************)
EXTENDS Integers, Sequences, FiniteSets, TLC

VARIABLES
    evalMultKeyMap,           \* keyTag -> vector of EvalKey
    evalSumKeyMap,            \* keyTag -> (index -> EvalKey)
    evalAutomorphismKeyMap,   \* keyTag -> (index -> EvalKey)
    plaintext,                \* the caller's Plaintext that Decrypt writes through its pointer
    call,                     \* the last call of the API: arguments, backend calls, outcome
    threads,                  \* the calls in flight on the caller's threads, each with its position
    shared                    \* the tags whose summation and automorphism entries are one map object

registry == <<evalMultKeyMap, evalSumKeyMap, evalAutomorphismKeyMap>>
vars == <<evalMultKeyMap, evalSumKeyMap, evalAutomorphismKeyMap, plaintext, call, threads, shared>>

----------------------------------------------------------------------------
(* Bounds of the model *)

\* rotation indices are 0..MaxIndex, index lists are subsets of 1..MaxIndex
MaxIndex == 2
\* key objects alive at one time that the backend can tell apart
MaxSerial == 2
\* longest vector the backend returns from EvalMultKeysGen
MaxChain == 2
\* longest ciphertext vector handed to EvalMerge / MultipartyDecryptFusion
MaxCiphertexts == 2
\* most CRT limbs in a ciphertext's ring element
MaxTowers == 2
\* the most partial decryptions handed to one fusion
MaxShares == 3
\* the most parties a secret is shared among
MaxParties == 5
\* the highest threshold asked for
MaxThreshold == 4
\* the seeds of the uniform generator
MaxSeed == 2

----------------------------------------------------------------------------
(* Values *)

nullptr == <<>>
Ptr(obj) == <<obj>>
Deref(p) == p[1]

\* the context the calls are made on, and another one
this == "cc"
Contexts == {"cc", "other"}
KeyTags == {"tagA", "tagB"}

Indices == 1..MaxIndex
Serials == 1..MaxSerial

\* no key, this context's keys, and another context's key that carries one of their tags
PrivateKeys == {nullptr} \cup {Ptr([cc |-> this, tag |-> t]) : t \in KeyTags}
                 \cup {Ptr([cc |-> "other", tag |-> "tagA"])}
PublicKeys == {nullptr} \cup {Ptr([cc |-> this, tag |-> t]) : t \in KeyTags}

Encodings == {"CKKS_PACKED_ENCODING", "PACKED_ENCODING"}
Towers == 1..MaxTowers

\* the scheme metadata a ciphertext carries; the two differ in every field
\* the scheme metadata a ciphertext carries, told by the number of its limbs; no two
\* fields agree, and none agrees with what a new plaintext holds
MetadataOf(towers) ==
    [noiseScaleDeg |-> 1 + towers, level |-> towers, scalingFactor |-> 3 + 2 * towers,
     slots |-> 4 * towers]
FreshMetadata == MetadataOf(1)

Ciphertext(cc, tag, encoding, towers, md) ==
    [cc |-> cc, tag |-> tag, encoding |-> encoding, towers |-> towers,
     noiseScaleDeg |-> md.noiseScaleDeg, level |-> md.level,
     scalingFactor |-> md.scalingFactor, slots |-> md.slots, elements |-> "encrypted"]

\* the ciphertexts handed to the evaluation methods, which read the context and the tag
EvalCiphertexts ==
    {nullptr} \cup {Ptr(Ciphertext(c, t, "PACKED_ENCODING", 1, FreshMetadata)) :
                        c \in Contexts, t \in KeyTags}
EvalCiphertextVectors ==
    UNION {[1..n -> EvalCiphertexts] : n \in 1..MaxCiphertexts}
ConstPlaintexts == {nullptr, Ptr([encoding |-> "PACKED_ENCODING"])}

Min(S) == CHOOSE x \in S : \A y \in S : x <= y

\* std::map operator[] assignment and erase
PutIfAbsent(m, k, v) == IF k \in DOMAIN m THEN m
                        ELSE [x \in (DOMAIN m) \cup {k} |-> IF x = k THEN v ELSE m[x]]
Put(m, k, v) == [x \in (DOMAIN m) \cup {k} |-> IF x = k THEN v ELSE m[x]]
Erase(m, k) == [x \in (DOMAIN m) \ {k} |-> m[x]]
EmptyMap == <<>>

\* CryptoContextImpl::Mismatched (cryptocontext.h): the object belongs to another context
Mismatched(cc) == cc # this

\* the caller's threads, and the frame of a thread that is in no call
Threads == {"t1", "t2"}
Idle == [pc |-> "idle"]

----------------------------------------------------------------------------
(* The record of a call *)

NoCall == [op |-> "none", sk |-> nullptr, pk |-> nullptr, keyID |-> "", cts |-> <<>>,
           index |-> 0, keys |-> <<>>, pt |-> nullptr, slot |-> FALSE,
           err |-> "none", backend |-> <<>>, ret |-> <<>>,
           N |-> 0, threshold |-> 0, shareType |-> "", shares |-> <<>>, target |-> nullptr,
           vec |-> <<>>, reads |-> <<>>, cc |-> ""]

\* one call of the scheme backend: what it was handed and what it returned
Backend(fn, passed, out) == [fn |-> fn, passed |-> passed, out |-> out]

\* OPENFHE_THROW(kind, ...): the call ends with no effect
Throw(c, kind) ==
    /\ call' = [c EXCEPT !.err = kind]
    /\ UNCHANGED <<registry, plaintext, threads, shared>>

----------------------------------------------------------------------------
(* The scheme backend's key generation (not in this file): every key it    *)
(* makes is a new object of the secret key's context carrying its tag.     *)

KeysOfVectors(m) == UNION {{m[t][i] : i \in DOMAIN m[t]} : t \in DOMAIN m}
LiveKeys == KeysOfVectors(evalMultKeyMap) \cup KeysOfVectors(evalSumKeyMap)
              \cup KeysOfVectors(evalAutomorphismKeyMap)
UsedSerials == {k.serial : k \in LiveKeys}
CanAllocate == Serials \ UsedSerials # {}
FreshSerial == Min(Serials \ UsedSerials)

NewEvalKey(sk) == [tag |-> sk.tag, cc |-> sk.cc, serial |-> FreshSerial]
NewEvalKeyVector(sk, n) == [i \in 1..n |-> NewEvalKey(sk)]
NewEvalKeyMap(sk, S) == [i \in S |-> NewEvalKey(sk)]

----------------------------------------------------------------------------
(* SHE MULTIPLICATION *)

EvalMultKeyGen(key) ==
    LET c == [NoCall EXCEPT !.op = "EvalMultKeyGen", !.sk = key] IN
    IF key = nullptr \/ Mismatched(Deref(key).cc)
    THEN Throw(c, "config_error")
    ELSE /\ CanAllocate
         /\ LET k == NewEvalKey(Deref(key)) IN
              /\ evalMultKeyMap' = Put(evalMultKeyMap, k.tag, <<k>>)
              /\ call' = [c EXCEPT !.backend = <<Backend("EvalMultKeyGen", <<>>, k)>>]
         /\ UNCHANGED <<evalSumKeyMap, evalAutomorphismKeyMap, plaintext, threads, shared>>

EvalMultKeysGen(key) ==
    LET c == [NoCall EXCEPT !.op = "EvalMultKeysGen", !.sk = key] IN
    IF key = nullptr \/ Mismatched(Deref(key).cc)
    THEN Throw(c, "config_error")
    ELSE /\ CanAllocate
         /\ \E n \in 1..MaxChain :
              LET evalKeys == NewEvalKeyVector(Deref(key), n) IN
                /\ evalMultKeyMap' = Put(evalMultKeyMap, evalKeys[1].tag, evalKeys)
                /\ call' = [c EXCEPT !.backend = <<Backend("EvalMultKeysGen", <<>>, evalKeys)>>]
         /\ UNCHANGED <<evalSumKeyMap, evalAutomorphismKeyMap, plaintext, threads, shared>>

\* find(keyID) in one of the maps: the error kind, the map afterwards, the entry
FindOrCreateEntry(map, keyID) ==
    IF keyID \notin DOMAIN map
    THEN [err |-> "none", map |-> Put(map, keyID, EmptyMap), entry |-> <<EmptyMap>>]
    ELSE [err |-> "none", map |-> map, entry |-> <<map[keyID]>>]
FindEntry(map, keyID) ==
    IF keyID \notin DOMAIN map
    THEN [err |-> "not_available_error", map |-> map, entry |-> <<>>]
    ELSE [err |-> "none", map |-> map, entry |-> <<map[keyID]>>]

GetEvalMultKeyVector(keyID) == FindEntry(evalMultKeyMap, keyID)

ClearEvalMultKeys ==
    /\ evalMultKeyMap' = EmptyMap
    /\ call' = [NoCall EXCEPT !.op = "ClearEvalMultKeys"]
    /\ UNCHANGED <<evalSumKeyMap, evalAutomorphismKeyMap, plaintext, threads, shared>>

ClearEvalMultKeysById(id) ==
    /\ evalMultKeyMap' = IF id \in DOMAIN evalMultKeyMap THEN Erase(evalMultKeyMap, id)
                         ELSE evalMultKeyMap
    /\ call' = [NoCall EXCEPT !.op = "ClearEvalMultKeys(id)", !.keyID = id]
    /\ UNCHANGED <<evalSumKeyMap, evalAutomorphismKeyMap, plaintext, threads, shared>>

GetEvalMultKeyVectorCall(keyID) ==
    LET ekv == GetEvalMultKeyVector(keyID) IN
    /\ evalMultKeyMap' = ekv.map
    /\ call' = [NoCall EXCEPT !.op = "GetEvalMultKeyVector", !.keyID = keyID,
                              !.err = ekv.err, !.ret = ekv.entry]
    /\ UNCHANGED <<evalSumKeyMap, evalAutomorphismKeyMap, plaintext, threads, shared>>

----------------------------------------------------------------------------
(* ADVANCED SHE: summation keys *)

\* the checks shared by EvalSumKeyGen, EvalSumRowsKeyGen, EvalSumColsKeyGen, EvalAtIndexKeyGen
KeyGenErrorSecretKeyOnly(privateKey, publicKey) ==
    IF privateKey = nullptr \/ Mismatched(Deref(privateKey).cc) THEN "config_error"
    ELSE "none"
KeyGenError(privateKey, publicKey) ==
    IF privateKey = nullptr \/ Mismatched(Deref(privateKey).cc) THEN "config_error"
    ELSE IF publicKey # nullptr /\ Deref(privateKey).tag # Deref(publicKey).tag THEN "config_error"
    ELSE "none"

\* the indices the backend makes summation keys for: fixed by the context's parameters
SumIndices == Indices

EvalSumKeyGen(privateKey, publicKey) ==
    LET c == [NoCall EXCEPT !.op = "EvalSumKeyGen", !.sk = privateKey, !.pk = publicKey] IN
    IF KeyGenError(privateKey, publicKey) # "none"
    THEN Throw(c, KeyGenError(privateKey, publicKey))
    ELSE /\ CanAllocate
         /\ LET evalKeys == NewEvalKeyMap(Deref(privateKey), SumIndices) IN
                /\ evalSumKeyMap' = Put(evalSumKeyMap, Deref(privateKey).tag, evalKeys)
                /\ call' = [c EXCEPT !.backend = <<Backend("EvalSumKeyGen", <<>>, evalKeys)>>]
         /\ shared' = shared \ {Deref(privateKey).tag}
         /\ UNCHANGED <<evalMultKeyMap, evalAutomorphismKeyMap, plaintext, threads>>

EvalSumRowsKeyGen(privateKey, publicKey) ==
    LET c == [NoCall EXCEPT !.op = "EvalSumRowsKeyGen", !.sk = privateKey, !.pk = publicKey] IN
    IF KeyGenError(privateKey, publicKey) # "none"
    THEN Throw(c, KeyGenError(privateKey, publicKey))
    ELSE /\ CanAllocate
         /\ LET evalKeys == NewEvalKeyMap(Deref(privateKey), SumIndices) IN
                call' = [c EXCEPT !.backend = <<Backend("EvalSumRowsKeyGen", <<>>, evalKeys)>>,
                                  !.ret = <<evalKeys>>]
         /\ UNCHANGED <<registry, plaintext, threads, shared>>

EvalSumColsKeyGen(privateKey, publicKey) ==
    LET c == [NoCall EXCEPT !.op = "EvalSumColsKeyGen", !.sk = privateKey, !.pk = publicKey] IN
    IF KeyGenError(privateKey, publicKey) # "none"
    THEN Throw(c, KeyGenError(privateKey, publicKey))
    ELSE /\ CanAllocate
         /\ LET evalKeys == NewEvalKeyMap(Deref(privateKey), SumIndices) IN
                call' = [c EXCEPT !.backend = <<Backend("EvalSumColsKeyGen", <<>>, evalKeys)>>,
                                  !.ret = <<evalKeys>>]
         /\ UNCHANGED <<registry, plaintext, threads, shared>>

GetEvalSumKeyMap(keyID) == FindEntry(evalSumKeyMap, keyID)

GetEvalSumKeyMapCall(keyID) ==
    LET ekv == GetEvalSumKeyMap(keyID) IN
    /\ evalSumKeyMap' = ekv.map
    /\ call' = [NoCall EXCEPT !.op = "GetEvalSumKeyMap", !.keyID = keyID,
                              !.err = ekv.err, !.ret = ekv.entry]
    /\ UNCHANGED <<evalMultKeyMap, evalAutomorphismKeyMap, plaintext, threads, shared>>

ClearEvalSumKeys ==
    /\ evalSumKeyMap' = EmptyMap
    /\ call' = [NoCall EXCEPT !.op = "ClearEvalSumKeys"]
    /\ shared' = {}
    /\ UNCHANGED <<evalMultKeyMap, evalAutomorphismKeyMap, plaintext, threads>>

ClearEvalSumKeysById(id) ==
    /\ evalSumKeyMap' = IF id \in DOMAIN evalSumKeyMap THEN Erase(evalSumKeyMap, id)
                        ELSE evalSumKeyMap
    /\ call' = [NoCall EXCEPT !.op = "ClearEvalSumKeys(id)", !.keyID = id]
    /\ shared' = shared \ {id}
    /\ UNCHANGED <<evalMultKeyMap, evalAutomorphismKeyMap, plaintext, threads>>

----------------------------------------------------------------------------
(* SHE AUTOMORPHISM *)

\* the while loop over evalKeys, ascending: insert the key only if its index is not there
InsertOverwriting(currRotMap, evalKeys, rest) ==
    [i \in (DOMAIN currRotMap) \cup rest |-> IF i \in rest THEN evalKeys[i] ELSE currRotMap[i]]
RECURSIVE InsertMissing(_, _, _)
InsertMissing(currRotMap, evalKeys, rest) ==
    IF rest = {} THEN currRotMap
    ELSE LET idx == Min(rest) IN
         InsertMissing(IF idx \notin DOMAIN currRotMap
                       THEN Put(currRotMap, idx, evalKeys[idx])
                       ELSE currRotMap,
                       evalKeys, rest \ {idx})

\* what the five key generations do with the backend's map; the line commented out at
\* the end of EvalAtIndexKeyGen assigned the whole entry instead
StoreAutomorphismKeysReplacing(keyTag, evalKeys) ==
    Put(evalAutomorphismKeyMap, keyTag, evalKeys)
StoreAutomorphismKeys(keyTag, evalKeys) ==
    IF keyTag \notin DOMAIN evalAutomorphismKeyMap
    THEN Put(evalAutomorphismKeyMap, keyTag, evalKeys)
    ELSE Put(evalAutomorphismKeyMap, keyTag,
             InsertMissing(evalAutomorphismKeyMap[keyTag], evalKeys, DOMAIN evalKeys))

\* the summation keys once the automorphism keys have become `after' by an insert into
\* the map of keyTag: a summation entry that is that very map holds what it holds
SummationKeysBeside(keyTag, after) ==
    IF keyTag \in shared /\ keyTag \in DOMAIN evalAutomorphismKeyMap
    THEN Put(evalSumKeyMap, keyTag, after[keyTag])
    ELSE evalSumKeyMap

EvalAtIndexKeyGen(privateKey, indexList, publicKey) ==
    LET c == [NoCall EXCEPT !.op = "EvalAtIndexKeyGen", !.sk = privateKey, !.pk = publicKey] IN
    IF KeyGenError(privateKey, publicKey) # "none"
    THEN Throw(c, KeyGenError(privateKey, publicKey))
    ELSE /\ CanAllocate
         /\ LET evalKeys == NewEvalKeyMap(Deref(privateKey), indexList) IN
              /\ evalAutomorphismKeyMap' = StoreAutomorphismKeys(Deref(privateKey).tag, evalKeys)
              /\ evalSumKeyMap' =
                    SummationKeysBeside(Deref(privateKey).tag,
                                        StoreAutomorphismKeys(Deref(privateKey).tag, evalKeys))
              /\ call' = [c EXCEPT !.backend = <<Backend("EvalAtIndexKeyGen", <<>>, evalKeys)>>]
         /\ UNCHANGED <<evalMultKeyMap, plaintext, threads, shared>>

GetEvalAutomorphismKeyMap(keyID) == FindEntry(evalAutomorphismKeyMap, keyID)

GetEvalAutomorphismKeyMapCall(keyID) ==
    LET ekv == GetEvalAutomorphismKeyMap(keyID) IN
    /\ evalAutomorphismKeyMap' = ekv.map
    /\ call' = [NoCall EXCEPT !.op = "GetEvalAutomorphismKeyMap", !.keyID = keyID,
                              !.err = ekv.err, !.ret = ekv.entry]
    /\ UNCHANGED <<evalMultKeyMap, evalSumKeyMap, plaintext, threads, shared>>

ClearEvalAutomorphismKeys ==
    /\ evalAutomorphismKeyMap' = EmptyMap
    /\ call' = [NoCall EXCEPT !.op = "ClearEvalAutomorphismKeys"]
    /\ shared' = {}
    /\ UNCHANGED <<evalMultKeyMap, evalSumKeyMap, plaintext, threads>>

ClearEvalAutomorphismKeysById(id) ==
    /\ evalAutomorphismKeyMap' = IF id \in DOMAIN evalAutomorphismKeyMap
                                 THEN Erase(evalAutomorphismKeyMap, id)
                                 ELSE evalAutomorphismKeyMap
    /\ call' = [NoCall EXCEPT !.op = "ClearEvalAutomorphismKeys(id)", !.keyID = id]
    /\ shared' = shared \ {id}
    /\ UNCHANGED <<evalMultKeyMap, evalSumKeyMap, plaintext, threads>>

----------------------------------------------------------------------------
(* FHE Bootstrap and SCHEMESWITCHING key generation: the same merge into    *)
(* the automorphism keys                                                    *)

\* the body the four share; the backend decides the indices
AutomorphismKeyGen(op, secretKey) ==
    LET c == [NoCall EXCEPT !.op = op, !.sk = secretKey] IN
    IF secretKey = nullptr \/ Mismatched(Deref(secretKey).cc)
    THEN Throw(c, "config_error")
    ELSE /\ CanAllocate
         /\ \E S \in (SUBSET Indices) \ {{}} :
              LET evalKeys == NewEvalKeyMap(Deref(secretKey), S) IN
                /\ evalAutomorphismKeyMap' = StoreAutomorphismKeys(Deref(secretKey).tag, evalKeys)
                /\ evalSumKeyMap' =
                      SummationKeysBeside(Deref(secretKey).tag,
                                          StoreAutomorphismKeys(Deref(secretKey).tag, evalKeys))
                /\ call' = [c EXCEPT !.backend = <<Backend(op, <<>>, evalKeys)>>]
         /\ UNCHANGED <<evalMultKeyMap, plaintext, threads, shared>>

EvalBootstrapKeyGen(privateKey) == AutomorphismKeyGen("EvalBootstrapKeyGen", privateKey)
EvalCKKStoFHEWKeyGen(secretKey) == AutomorphismKeyGen("EvalCKKStoFHEWKeyGen", secretKey)
EvalFHEWtoCKKSKeyGen(secretKey) == AutomorphismKeyGen("EvalFHEWtoCKKSKeyGen", secretKey)
EvalSchemeSwitchingKeyGen(secretKey) == AutomorphismKeyGen("EvalSchemeSwitchingKeyGen", secretKey)

----------------------------------------------------------------------------
(* The key registry on its own *)

Init ==
    /\ evalMultKeyMap = EmptyMap
    /\ evalSumKeyMap = EmptyMap
    /\ evalAutomorphismKeyMap = EmptyMap
    /\ plaintext = nullptr
    /\ call = NoCall
    /\ threads = [t \in Threads |-> Idle]
    /\ shared = {}

KeyGeneration ==
    \/ \E key \in PrivateKeys : EvalMultKeyGen(key)
    \/ \E key \in PrivateKeys : EvalMultKeysGen(key)
    \/ \E sk \in PrivateKeys, pk \in PublicKeys : EvalSumKeyGen(sk, pk)
    \/ \E sk \in PrivateKeys, pk \in PublicKeys : EvalSumRowsKeyGen(sk, pk)
    \/ \E sk \in PrivateKeys, pk \in PublicKeys : EvalSumColsKeyGen(sk, pk)
    \/ \E sk \in PrivateKeys, pk \in PublicKeys, indexList \in SUBSET Indices :
          EvalAtIndexKeyGen(sk, indexList, pk)
    \/ \E sk \in PrivateKeys : EvalBootstrapKeyGen(sk)
    \/ \E sk \in PrivateKeys : EvalCKKStoFHEWKeyGen(sk)
    \/ \E sk \in PrivateKeys : EvalFHEWtoCKKSKeyGen(sk)
    \/ \E sk \in PrivateKeys : EvalSchemeSwitchingKeyGen(sk)

Lookup ==
    \/ \E keyID \in KeyTags : GetEvalMultKeyVectorCall(keyID)
    \/ \E keyID \in KeyTags : GetEvalSumKeyMapCall(keyID)
    \/ \E keyID \in KeyTags : GetEvalAutomorphismKeyMapCall(keyID)

Clear ==
    \/ ClearEvalMultKeys
    \/ \E id \in KeyTags : ClearEvalMultKeysById(id)
    \/ ClearEvalSumKeys
    \/ \E id \in KeyTags : ClearEvalSumKeysById(id)
    \/ ClearEvalAutomorphismKeys
    \/ \E id \in KeyTags : ClearEvalAutomorphismKeysById(id)

Next == KeyGeneration \/ Lookup \/ Clear

Spec == Init /\ [][Next]_vars

----------------------------------------------------------------------------
(* Properties of the key registry *)

KeyGenOps == {"EvalMultKeyGen", "EvalMultKeysGen", "EvalSumKeyGen", "EvalSumRowsKeyGen",
              "EvalSumColsKeyGen", "EvalAtIndexKeyGen", "EvalBootstrapKeyGen",
              "EvalCKKStoFHEWKeyGen", "EvalFHEWtoCKKSKeyGen", "EvalSchemeSwitchingKeyGen"}
PublicKeyOps == {"EvalSumKeyGen", "EvalSumRowsKeyGen", "EvalSumColsKeyGen", "EvalAtIndexKeyGen"}
AutomorphismKeyGenOps == {"EvalAtIndexKeyGen", "EvalBootstrapKeyGen", "EvalCKKStoFHEWKeyGen",
                          "EvalFHEWtoCKKSKeyGen", "EvalSchemeSwitchingKeyGen"}

\* the entry of a map for a tag, and the empty map when it has none
EntryOrEmpty(map, keyTag) == IF keyTag \in DOMAIN map THEN map[keyTag] ELSE EmptyMap

\* C1: a successful EvalAtIndexKeyGen leaves, under the secret key's tag, the union of
\* the indices cached before and the indices the backend produced; every index cached
\* before keeps the very key it had (the recomputed one is dropped), every other index
\* holds the key just produced.  Two calls in a row are two such steps.
C1_AutomorphismMerge ==
    [][ (call'.op = "EvalAtIndexKeyGen" /\ call'.err = "none") =>
          LET keyTag == Deref(call'.sk).tag
              produced == call'.backend[1].out
              before == EntryOrEmpty(evalAutomorphismKeyMap, keyTag)
              after == EntryOrEmpty(evalAutomorphismKeyMap', keyTag)
          IN /\ keyTag \in DOMAIN evalAutomorphismKeyMap'
             /\ DOMAIN after = (DOMAIN before) \cup (DOMAIN produced)
             /\ \A i \in DOMAIN before : after[i] = before[i]
             /\ \A i \in (DOMAIN produced) \ (DOMAIN before) : after[i] = produced[i]
      ]_vars

\* a second generation has just run: one index kept its older key although the call
\* produced another key for it, and one index took the key the call produced
C1_Witness ==
    /\ call.op = "EvalAtIndexKeyGen" /\ call.err = "none"
    /\ LET entry == evalAutomorphismKeyMap[Deref(call.sk).tag]
           produced == call.backend[1].out
       IN /\ \E i \in DOMAIN produced : entry[i] # produced[i]
          /\ \E j \in DOMAIN produced : entry[j] = produced[j]

\* C2: right after a successful EvalMultKeyGen, EvalMultKeysGen or EvalSumKeyGen, looking
\* up the secret key's tag in that store finds exactly what the backend returned to the
\* call (a one-key vector, the whole vector, the whole map); the same holds after
\* EvalAtIndexKeyGen when the tag had no automorphism entry before the call.
C2_GenerateThenLookup ==
    [][ (call'.op \in {"EvalMultKeyGen", "EvalMultKeysGen", "EvalSumKeyGen", "EvalAtIndexKeyGen"}
           /\ call'.err = "none") =>
          LET keyTag == Deref(call'.sk).tag
              produced == call'.backend[1].out
          IN /\ call'.op = "EvalMultKeyGen" =>
                  /\ FindEntry(evalMultKeyMap', keyTag).err = "none"
                  /\ FindEntry(evalMultKeyMap', keyTag).entry = << <<produced>> >>
             /\ call'.op = "EvalMultKeysGen" =>
                  /\ FindEntry(evalMultKeyMap', keyTag).err = "none"
                  /\ FindEntry(evalMultKeyMap', keyTag).entry = <<produced>>
             /\ call'.op = "EvalSumKeyGen" =>
                  /\ FindEntry(evalSumKeyMap', keyTag).err = "none"
                  /\ FindEntry(evalSumKeyMap', keyTag).entry = <<produced>>
             /\ (call'.op = "EvalAtIndexKeyGen" /\ keyTag \notin DOMAIN evalAutomorphismKeyMap) =>
                  /\ FindEntry(evalAutomorphismKeyMap', keyTag).err = "none"
                  /\ FindEntry(evalAutomorphismKeyMap', keyTag).entry = <<produced>>
      ]_vars

\* a multiplication-key vector has just replaced an older entry of the same tag: the
\* new keys took the second serial because the older key was alive, and it is gone now
C2_Witness ==
    /\ call.op = "EvalMultKeysGen" /\ call.err = "none"
    /\ call.backend[1].out[1].serial = 2
    /\ Len(call.backend[1].out) = 2
    /\ UsedSerials = {2}
    /\ evalMultKeyMap[Deref(call.sk).tag] = call.backend[1].out

\* C3: a key generation handed no secret key or another context's secret key, or (the
\* four that take one) a public key whose tag is not the secret key's, throws
\* config_error, calls the backend not once and leaves the three stores as they were.
C3_KeyGenValidation ==
    [][ (/\ call'.op \in KeyGenOps
         /\ \/ call'.sk = nullptr
            \/ Deref(call'.sk).cc # this
            \/ /\ call'.op \in PublicKeyOps
               /\ call'.pk # nullptr
               /\ Deref(call'.pk).tag # Deref(call'.sk).tag) =>
          /\ call'.err = "config_error"
          /\ call'.backend = <<>>
          /\ call'.ret = <<>>
          /\ registry' = registry
      ]_vars

\* a generation was refused for its public key while the stores held keys
C3_Witness ==
    /\ call.op = "EvalAtIndexKeyGen" /\ call.err = "config_error"
    /\ call.sk # nullptr /\ Deref(call.sk).cc = this
    /\ call.pk # nullptr /\ Deref(call.pk).tag # Deref(call.sk).tag
    /\ evalAutomorphismKeyMap # EmptyMap /\ evalSumKeyMap # EmptyMap

LookupOps == {"GetEvalMultKeyVector", "GetEvalSumKeyMap", "GetEvalAutomorphismKeyMap"}
StoreOf(op) == IF op = "GetEvalMultKeyVector" THEN evalMultKeyMap
               ELSE IF op = "GetEvalSumKeyMap" THEN evalSumKeyMap
               ELSE evalAutomorphismKeyMap

\* C4: a lookup throws not_available_error exactly when the store has no entry for the
\* tag, and then returns nothing; otherwise it returns the entry as stored; in both
\* cases no store changes (a failed lookup creates no entry).
C4_Lookup ==
    [][ call'.op \in LookupOps =>
          LET store == StoreOf(call'.op) IN
          /\ registry' = registry
          /\ call'.err \in {"none", "not_available_error"}
          /\ call'.err = "not_available_error" <=> call'.keyID \notin DOMAIN store
          /\ call'.keyID \notin DOMAIN store => call'.ret = <<>>
          /\ call'.keyID \in DOMAIN store => call'.ret = <<store[call'.keyID]>>
      ]_vars

\* a lookup has just failed for one tag while the same store holds another tag's keys
C4_Witness ==
    /\ call.op = "GetEvalSumKeyMap" /\ call.err = "not_available_error"
    /\ evalSumKeyMap # EmptyMap
    /\ call.keyID \notin DOMAIN evalSumKeyMap

----------------------------------------------------------------------------
(* Evaluation: validate, fetch the keys, hand over to the scheme *)

\* what an evaluation of the backend returns (not in this file): a new ciphertext
SchemeOutput(cts) ==
    IF cts[1] = nullptr THEN nullptr
    ELSE Ptr([Deref(cts[1]) EXCEPT !.elements = "evaluated"])

\* CiphertextImpl::Clone (ciphertext.h): a copy that compares equal
Clone(ciphertext) == Ptr(Deref(ciphertext))

\* auto rv = GetScheme()->fn(cts, passed); return rv;  The record of the backend call
\* holds the ciphertexts handed over beside the keys
Delegate(c, fn, passed, cts) ==
    [c EXCEPT !.backend = <<[fn |-> fn, passed |-> passed, out |-> SchemeOutput(cts),
                             cts |-> cts]>>,
              !.ret = <<SchemeOutput(cts)>>]

\* the keys handed by the caller to EvalSumRows / EvalSumCols
CallerKeyMaps ==
    {[i \in SumIndices |-> [tag |-> t, cc |-> this, serial |-> 1]] : t \in KeyTags}

EvalSumLookupFirst(ciphertext) ==
    LET c == [NoCall EXCEPT !.op = "EvalSum", !.cts = <<ciphertext>>]
        evalSumKeys == GetEvalSumKeyMap(IF ciphertext = nullptr THEN "" ELSE Deref(ciphertext).tag)
    IN
    IF evalSumKeys.err # "none" THEN Throw(c, evalSumKeys.err)
    ELSE IF ciphertext = nullptr \/ Mismatched(Deref(ciphertext).cc)
    THEN Throw(c, "config_error")
    ELSE /\ evalSumKeyMap' = evalSumKeys.map
         /\ call' = Delegate(c, "EvalSum", evalSumKeys.entry, <<ciphertext>>)
         /\ UNCHANGED <<evalMultKeyMap, evalAutomorphismKeyMap, plaintext, threads, shared>>

EvalSum(ciphertext) ==
    LET c == [NoCall EXCEPT !.op = "EvalSum", !.cts = <<ciphertext>>] IN
    IF ciphertext = nullptr \/ Mismatched(Deref(ciphertext).cc)
    THEN Throw(c, "config_error")
    ELSE LET evalSumKeys == GetEvalSumKeyMap(Deref(ciphertext).tag) IN
         /\ evalSumKeyMap' = evalSumKeys.map
         /\ call' = IF evalSumKeys.err # "none" THEN [c EXCEPT !.err = evalSumKeys.err]
                    ELSE Delegate(c, "EvalSum", evalSumKeys.entry, <<ciphertext>>)
         /\ UNCHANGED <<evalMultKeyMap, evalAutomorphismKeyMap, plaintext, threads, shared>>

\* the keys are the caller's: no getter is called (as EvalSum and EvalSumCols call one)
EvalSumRowsOfStoredKeys(ciphertext, evalSumKeys) ==
    LET c == [NoCall EXCEPT !.op = "EvalSumRows", !.cts = <<ciphertext>>,
                            !.keys = <<evalSumKeys>>] IN
    IF ciphertext = nullptr \/ Mismatched(Deref(ciphertext).cc)
    THEN Throw(c, "config_error")
    ELSE LET stored == GetEvalSumKeyMap(Deref(ciphertext).tag) IN
         /\ call' = IF stored.err # "none" THEN [c EXCEPT !.err = stored.err]
                    ELSE Delegate(c, "EvalSumRows", stored.entry, <<ciphertext>>)
         /\ UNCHANGED <<registry, plaintext, threads, shared>>
EvalSumRows(ciphertext, evalSumKeys) ==
    LET c == [NoCall EXCEPT !.op = "EvalSumRows", !.cts = <<ciphertext>>,
                            !.keys = <<evalSumKeys>>] IN
    IF ciphertext = nullptr \/ Mismatched(Deref(ciphertext).cc)
    THEN Throw(c, "config_error")
    ELSE /\ call' = Delegate(c, "EvalSumRows", <<evalSumKeys>>, <<ciphertext>>)
         /\ UNCHANGED <<registry, plaintext, threads, shared>>

EvalSumCols(ciphertext, evalSumKeysRight) ==
    LET c == [NoCall EXCEPT !.op = "EvalSumCols", !.cts = <<ciphertext>>,
                            !.keys = <<evalSumKeysRight>>] IN
    IF ciphertext = nullptr \/ Mismatched(Deref(ciphertext).cc)
    THEN Throw(c, "config_error")
    ELSE LET evalSumKeys == GetEvalSumKeyMap(Deref(ciphertext).tag) IN
         /\ evalSumKeyMap' = evalSumKeys.map
         /\ call' = IF evalSumKeys.err # "none" THEN [c EXCEPT !.err = evalSumKeys.err]
                    ELSE Delegate(c, "EvalSumCols", evalSumKeys.entry \o <<evalSumKeysRight>>,
                                  <<ciphertext>>)
         /\ UNCHANGED <<evalMultKeyMap, evalAutomorphismKeyMap, plaintext, threads, shared>>

\* if (0 == index)
NeverZero(index) == FALSE
IsZeroIndex(index) == 0 = index

EvalAtIndex(ciphertext, index) ==
    LET c == [NoCall EXCEPT !.op = "EvalAtIndex", !.cts = <<ciphertext>>, !.index = index] IN
    IF ciphertext = nullptr \/ Mismatched(Deref(ciphertext).cc)
    THEN Throw(c, "config_error")
    ELSE IF IsZeroIndex(index)
    THEN /\ call' = [c EXCEPT !.ret = <<Clone(ciphertext)>>]
         /\ UNCHANGED <<registry, plaintext, threads, shared>>
    ELSE LET evalAutomorphismKeys == GetEvalAutomorphismKeyMap(Deref(ciphertext).tag) IN
         /\ evalAutomorphismKeyMap' = evalAutomorphismKeys.map
         /\ call' = IF evalAutomorphismKeys.err # "none"
                    THEN [c EXCEPT !.err = evalAutomorphismKeys.err]
                    ELSE Delegate(c, "EvalAtIndex", evalAutomorphismKeys.entry, <<ciphertext>>)
         /\ UNCHANGED <<evalMultKeyMap, evalSumKeyMap, plaintext, threads, shared>>

\* the vector is not empty: element 0 is read before anything else, and no other
\* element is read
EvalMergeOfValidatedVector(ciphertextVector) ==
    LET c == [NoCall EXCEPT !.op = "EvalMerge", !.cts = ciphertextVector] IN
    IF \E i \in DOMAIN ciphertextVector :
          \/ ciphertextVector[i] = nullptr
          \/ Mismatched(Deref(ciphertextVector[i]).cc)
          \/ Deref(ciphertextVector[i]).tag # Deref(ciphertextVector[1]).tag
    THEN Throw(c, "config_error")
    ELSE LET evalAutomorphismKeys == GetEvalAutomorphismKeyMap(Deref(ciphertextVector[1]).tag) IN
         /\ evalAutomorphismKeyMap' = evalAutomorphismKeys.map
         /\ call' = IF evalAutomorphismKeys.err # "none"
                    THEN [c EXCEPT !.err = evalAutomorphismKeys.err]
                    ELSE Delegate(c, "EvalMerge", evalAutomorphismKeys.entry, ciphertextVector)
         /\ UNCHANGED <<evalMultKeyMap, evalSumKeyMap, plaintext, threads, shared>>
EvalMerge(ciphertextVector) ==
    LET c == [NoCall EXCEPT !.op = "EvalMerge", !.cts = ciphertextVector] IN
    IF ciphertextVector[1] = nullptr \/ Mismatched(Deref(ciphertextVector[1]).cc)
    THEN Throw(c, "config_error")
    ELSE LET evalAutomorphismKeys == GetEvalAutomorphismKeyMap(Deref(ciphertextVector[1]).tag) IN
         /\ evalAutomorphismKeyMap' = evalAutomorphismKeys.map
         /\ call' = IF evalAutomorphismKeys.err # "none"
                    THEN [c EXCEPT !.err = evalAutomorphismKeys.err]
                    ELSE Delegate(c, "EvalMerge", evalAutomorphismKeys.entry, ciphertextVector)
         /\ UNCHANGED <<evalMultKeyMap, evalSumKeyMap, plaintext, threads, shared>>

\* the condition of EvalInnerProduct(ct, ct), left to right
InnerProductRejectsIgnoringTags(ct1, ct2) ==
    ct1 = nullptr \/ ct2 = nullptr \/ Mismatched(Deref(ct1).cc)
InnerProductRejects(ct1, ct2) ==
    ct1 = nullptr \/ ct2 = nullptr \/ Deref(ct1).tag # Deref(ct2).tag \/ Mismatched(Deref(ct1).cc)

EvalInnerProduct(ct1, ct2) ==
    LET c == [NoCall EXCEPT !.op = "EvalInnerProduct", !.cts = <<ct1, ct2>>] IN
    IF InnerProductRejects(ct1, ct2)
    THEN Throw(c, "config_error")
    ELSE LET evalSumKeys == GetEvalSumKeyMap(Deref(ct1).tag)
             ek == GetEvalMultKeyVector(Deref(ct1).tag)
         IN
         /\ evalSumKeyMap' = evalSumKeys.map
         /\ evalMultKeyMap' = IF evalSumKeys.err # "none" THEN evalMultKeyMap ELSE ek.map
         /\ call' = IF evalSumKeys.err # "none" THEN [c EXCEPT !.err = evalSumKeys.err]
                    ELSE IF ek.err # "none" THEN [c EXCEPT !.err = ek.err]
                    ELSE Delegate(c, "EvalInnerProduct",
                                  evalSumKeys.entry \o <<Deref(ek.entry)[1]>>, <<ct1, ct2>>)
         /\ UNCHANGED <<evalAutomorphismKeyMap, plaintext, threads, shared>>

EvalInnerProductPlain(ct1, ct2) ==
    LET c == [NoCall EXCEPT !.op = "EvalInnerProductPlain", !.cts = <<ct1>>, !.pt = ct2] IN
    IF ct1 = nullptr \/ ct2 = nullptr \/ Mismatched(Deref(ct1).cc)
    THEN Throw(c, "config_error")
    ELSE LET evalSumKeys == GetEvalSumKeyMap(Deref(ct1).tag) IN
         /\ evalSumKeyMap' = evalSumKeys.map
         /\ call' = IF evalSumKeys.err # "none" THEN [c EXCEPT !.err = evalSumKeys.err]
                    ELSE Delegate(c, "EvalInnerProductPlain", evalSumKeys.entry, <<ct1>>)
         /\ UNCHANGED <<evalMultKeyMap, evalAutomorphismKeyMap, plaintext, threads, shared>>

EvalBootstrap(ciphertext) ==
    /\ call' = Delegate([NoCall EXCEPT !.op = "EvalBootstrap", !.cts = <<ciphertext>>],
                        "EvalBootstrap", <<>>, <<ciphertext>>)
    /\ UNCHANGED <<registry, plaintext, threads, shared>>

EvalCKKStoFHEW(ciphertext) ==
    LET c == [NoCall EXCEPT !.op = "EvalCKKStoFHEW", !.cts = <<ciphertext>>] IN
    IF ciphertext = nullptr
    THEN Throw(c, "config_error")
    ELSE /\ call' = Delegate(c, "EvalCKKStoFHEW", <<>>, <<ciphertext>>)
         /\ UNCHANGED <<registry, plaintext, threads, shared>>

EvalCompareSchemeSwitching(ciphertext1, ciphertext2) ==
    LET c == [NoCall EXCEPT !.op = "EvalCompareSchemeSwitching",
                            !.cts = <<ciphertext1, ciphertext2>>] IN
    IF ciphertext1 = nullptr \/ ciphertext2 = nullptr
    THEN Throw(c, "config_error")
    ELSE IF Mismatched(Deref(ciphertext1).cc) \/ Mismatched(Deref(ciphertext2).cc)
    THEN Throw(c, "config_error")
    ELSE /\ call' = Delegate(c, "EvalCompareSchemeSwitching", <<>>, <<ciphertext1, ciphertext2>>)
         /\ UNCHANGED <<registry, plaintext, threads, shared>>

\* EvalMinSchemeSwitching and EvalMaxSchemeSwitching; the public key goes to the backend unread
MinMaxSchemeSwitching(op, ciphertext) ==
    LET c == [NoCall EXCEPT !.op = op, !.cts = <<ciphertext>>] IN
    IF ciphertext = nullptr
    THEN Throw(c, "config_error")
    ELSE IF Mismatched(Deref(ciphertext).cc)
    THEN Throw(c, "config_error")
    ELSE /\ call' = Delegate(c, op, <<>>, <<ciphertext>>)
         /\ UNCHANGED <<registry, plaintext, threads, shared>>

EvalMinSchemeSwitching(ciphertext) == MinMaxSchemeSwitching("EvalMinSchemeSwitching", ciphertext)
EvalMaxSchemeSwitching(ciphertext) == MinMaxSchemeSwitching("EvalMaxSchemeSwitching", ciphertext)

----------------------------------------------------------------------------
(* The evaluation methods over registries filled by this context's keys *)

OwnPrivateKeys == {Ptr([cc |-> this, tag |-> t]) : t \in KeyTags}

FillRegistry ==
    \/ \E key \in OwnPrivateKeys : EvalMultKeyGen(key)
    \/ \E sk \in OwnPrivateKeys : EvalSumKeyGen(sk, nullptr)
    \/ \E sk \in OwnPrivateKeys : EvalAtIndexKeyGen(sk, Indices, nullptr)
    \/ ClearEvalMultKeys
    \/ ClearEvalSumKeys
    \/ ClearEvalAutomorphismKeys

Evaluation ==
    \/ \E ct \in EvalCiphertexts : EvalSum(ct)
    \/ \E ct \in EvalCiphertexts, keys \in CallerKeyMaps : EvalSumRows(ct, keys)
    \/ \E ct \in EvalCiphertexts, keys \in CallerKeyMaps : EvalSumCols(ct, keys)
    \/ \E ct \in EvalCiphertexts, index \in 0..MaxIndex : EvalAtIndex(ct, index)
    \/ \E cts \in EvalCiphertextVectors : EvalMerge(cts)
    \/ \E ct1 \in EvalCiphertexts, ct2 \in EvalCiphertexts : EvalInnerProduct(ct1, ct2)
    \/ \E ct1 \in EvalCiphertexts, ct2 \in ConstPlaintexts : EvalInnerProductPlain(ct1, ct2)
    \/ \E ct \in EvalCiphertexts : EvalBootstrap(ct)
    \/ \E ct \in EvalCiphertexts : EvalCKKStoFHEW(ct)
    \/ \E ct1 \in EvalCiphertexts, ct2 \in EvalCiphertexts : EvalCompareSchemeSwitching(ct1, ct2)
    \/ \E ct \in EvalCiphertexts : EvalMinSchemeSwitching(ct)
    \/ \E ct \in EvalCiphertexts : EvalMaxSchemeSwitching(ct)

NextDispatch == FillRegistry \/ Evaluation

SpecDispatch == Init /\ [][NextDispatch]_vars

----------------------------------------------------------------------------
(* Properties of the evaluation methods *)

EvaluationOps == {"EvalSum", "EvalSumRows", "EvalSumCols", "EvalAtIndex", "EvalMerge",
                  "EvalInnerProduct", "EvalInnerProductPlain", "EvalBootstrap",
                  "EvalCKKStoFHEW", "EvalCompareSchemeSwitching",
                  "EvalMinSchemeSwitching", "EvalMaxSchemeSwitching"}

Foreign(ct) == ct # nullptr /\ Deref(ct).cc # this
Owned(ct) == ct # nullptr /\ Deref(ct).cc = this

\* C5: every evaluation method handed a ciphertext of another context, in any argument
\* or any place of a vector, throws config_error and does not call the backend.
C5_ForeignCiphertextRejected ==
    (call.op \in EvaluationOps /\ \E i \in DOMAIN call.cts : Foreign(call.cts[i])) =>
        (call.err = "config_error" /\ call.backend = <<>>)

ReadsRegistry(c) ==
    \/ c.op \in {"EvalSum", "EvalSumCols", "EvalMerge", "EvalInnerProduct", "EvalInnerProductPlain"}
    \/ c.op = "EvalAtIndex" /\ c.index # 0
\* the ciphertext whose tag selects the keys passed validation, with the operand beside it
Validated(c) ==
    /\ Owned(c.cts[1])
    /\ c.op = "EvalInnerProduct" =>
          (c.cts[2] # nullptr /\ Deref(c.cts[2]).tag = Deref(c.cts[1]).tag)
    /\ c.op = "EvalInnerProductPlain" => c.pt # nullptr
\* the stores a call needs
NeedsSum(c) == c.op \in {"EvalSum", "EvalSumCols", "EvalInnerProduct", "EvalInnerProductPlain"}
NeedsAutomorphism(c) == c.op \in {"EvalAtIndex", "EvalMerge"}
NeedsMult(c) == c.op = "EvalInnerProduct"
\* a store the call needs has no entry for the tag of its ciphertext
Missing(c) ==
    LET keyTag == Deref(c.cts[1]).tag IN
    \/ NeedsSum(c) /\ keyTag \notin DOMAIN evalSumKeyMap
    \/ NeedsAutomorphism(c) /\ keyTag \notin DOMAIN evalAutomorphismKeyMap
    \/ NeedsMult(c) /\ keyTag \notin DOMAIN evalMultKeyMap
\* the key material the call takes from the stores as they are, and from its caller
Fetched(c) ==
    LET keyTag == Deref(c.cts[1]).tag IN
    IF NeedsAutomorphism(c) THEN <<evalAutomorphismKeyMap[keyTag]>>
    ELSE IF NeedsMult(c) THEN <<evalSumKeyMap[keyTag], evalMultKeyMap[keyTag][1]>>
    ELSE IF c.op = "EvalSumCols" THEN <<evalSumKeyMap[keyTag]>> \o c.keys
    ELSE <<evalSumKeyMap[keyTag]>>

\* C7: for the calls that read the registry, validation comes first, the fetch second,
\* the backend last: with no ciphertext or a foreign one (the ciphertext whose tag
\* selects the keys) the call throws config_error whatever the stores hold; with a
\* validated ciphertext and a needed store lacking its tag it throws
\* not_available_error; in both cases the backend is not called.  Otherwise the
\* backend is called once with the fetched keys (for ct x ct the summation keys and
\* the first multiplication key).
C7_ValidateFetchDelegate ==
    [][ ReadsRegistry(call') =>
          /\ (call'.cts[1] = nullptr \/ Foreign(call'.cts[1])) =>
                (call'.err = "config_error" /\ call'.backend = <<>>)
          /\ (Validated(call') /\ Missing(call')) =>
                (call'.err = "not_available_error" /\ call'.backend = <<>>)
          /\ (Validated(call') /\ ~Missing(call')) =>
                /\ call'.err = "none"
                /\ Len(call'.backend) = 1
                /\ call'.backend[1].passed = Fetched(call')
      ]_vars

\* an inner product of two ciphertexts has just failed on the multiplication keys
\* alone: the summation keys of the tag were there
C7_Witness ==
    /\ call.op = "EvalInnerProduct" /\ call.err = "not_available_error" /\ call.backend = <<>>
    /\ Deref(call.cts[1]).tag \in DOMAIN evalSumKeyMap
    /\ Deref(call.cts[1]).tag \notin DOMAIN evalMultKeyMap

\* C8: EvalInnerProduct(ct1, ct2) with two ciphertexts of different key tags throws
\* config_error, not the lookup's error, and does not call the backend, whatever the
\* stores hold.
C8_InnerProductTags ==
    (/\ call.op = "EvalInnerProduct"
     /\ call.cts[1] # nullptr /\ call.cts[2] # nullptr
     /\ Deref(call.cts[1]).tag # Deref(call.cts[2]).tag) =>
        (call.err = "config_error" /\ call.backend = <<>>)

\* two owned ciphertexts of different tags were refused while the stores held the
\* summation and multiplication keys of the first one's tag
C8_Witness ==
    /\ call.op = "EvalInnerProduct" /\ call.err = "config_error"
    /\ Owned(call.cts[1]) /\ Owned(call.cts[2])
    /\ Deref(call.cts[1]).tag # Deref(call.cts[2]).tag
    /\ Deref(call.cts[1]).tag \in DOMAIN evalSumKeyMap
    /\ Deref(call.cts[1]).tag \in DOMAIN evalMultKeyMap

----------------------------------------------------------------------------
(* Decryption (the DCRTPoly instantiation) *)

DecryptResult(isValid, scalingFactorInt) ==
    [isValid |-> isValid, scalingFactorInt |-> scalingFactorInt]
\* DecryptResult() (decrypt-result.h): not valid
DefaultDecryptResult == DecryptResult(FALSE, 1)
\* what the backend's Decrypt / MultipartyDecryptFusion may return
BackendResults == {DefaultDecryptResult, DecryptResult(TRUE, 3)}

\* the parameters of the context the final CKKS decode takes
ScalingTechnique == "FLEXIBLEAUTO"
ExecutionMode == "EXEC_EVALUATION"

\* the ciphertexts handed to decryption, which reads everything but the tag
DecryptCiphertexts ==
    {nullptr} \cup {Ptr(Ciphertext(c, "tagA", e, n, MetadataOf(n))) :
                        c \in Contexts, e \in Encodings, n \in Towers}
\* the partial decryptions handed to fusion: a ciphertext of another context is
\* turned away on its context alone, so one of them stands for all
PartialCiphertexts ==
    {nullptr, Ptr(Ciphertext("other", "tagA", "CKKS_PACKED_ENCODING", 1, MetadataOf(1)))}
        \cup {Ptr(Ciphertext(this, "tagA", e, n, MetadataOf(n))) : e \in Encodings, n \in Towers}
DecryptCiphertextVectors ==
    UNION {[1..n -> PartialCiphertexts] : n \in 0..MaxShares}
DecryptKeys == {nullptr, Ptr([cc |-> this, tag |-> "tagA"]), Ptr([cc |-> "other", tag |-> "tagA"])}

\* PlaintextFactory::MakePlaintext (plaintextfactory.h): a new plaintext over vp
MakePlaintext(pte, vp) ==
    [encoding |-> pte, params |-> vp, scalingFactorInt |-> 1, noiseScaleDeg |-> 1,
     level |-> 0, scalingFactor |-> 1, slots |-> 0, decoded |-> FALSE]

\* evp->GetParams().size() is the number of limbs
GetPlaintextForDecrypt(pte, towers) ==
    IF pte = "CKKS_PACKED_ENCODING" /\ towers > 1
    THEN MakePlaintext(pte, "Poly")
    ELSE MakePlaintext(pte, "NativePoly")

\* which element of the plaintext the backend decrypts into
DecryptElementByLimbsOnly(ct) ==
    IF ct.towers > 1 THEN "Poly" ELSE "NativePoly"
DecryptElement(ct) ==
    IF ct.encoding = "CKKS_PACKED_ENCODING" /\ ct.towers > 1 THEN "Poly" ELSE "NativePoly"

\* if (result.isValid == false) return result;
NeverInvalid(result) == FALSE
IsInvalid(result) == result.isValid = FALSE

\* Plaintext::Decode and CKKSPackedEncoding::Decode (not in this file): what the
\* plaintext is once decoded (and not what it was before)
NotDecoded(pt) == pt
Decoded(pt) == [pt EXCEPT !.decoded = TRUE]
DecodeCall(pt, args) == Backend("Decode", args, pt)

\* a write through a null Plaintext*: the process dies there
NullWrite(c) ==
    /\ call' = [c EXCEPT !.err = "segmentation_fault"]
    /\ UNCHANGED <<registry, plaintext, threads, shared>>

Decrypt(ciphertext, privateKey, slot, result) ==
    LET c == [NoCall EXCEPT !.op = "Decrypt", !.cts = <<ciphertext>>, !.sk = privateKey,
                            !.slot = slot] IN
    IF ciphertext = nullptr THEN Throw(c, "config_error")
    ELSE IF ~slot THEN Throw(c, "config_error")
    ELSE IF privateKey = nullptr \/ Mismatched(Deref(privateKey).cc) THEN Throw(c, "config_error")
    ELSE
      LET ct == Deref(ciphertext)
          decrypted == GetPlaintextForDecrypt(ct.encoding, ct.towers)
          decrypt == Backend("Decrypt", <<DecryptElement(ct)>>, result)
      IN
      IF IsInvalid(result)
      THEN /\ call' = [c EXCEPT !.backend = <<decrypt>>, !.ret = <<result>>]
           /\ UNCHANGED <<registry, plaintext, threads, shared>>
      ELSE
        LET scaled == [decrypted EXCEPT !.scalingFactorInt = result.scalingFactorInt]
            decryptedCKKS == [scaled EXCEPT !.noiseScaleDeg = ct.noiseScaleDeg,
                                            !.level = ct.level,
                                            !.scalingFactor = ct.scalingFactor,
                                            !.slots = ct.slots]
            decode == IF ct.encoding = "CKKS_PACKED_ENCODING"
                      THEN DecodeCall(decryptedCKKS, <<ct.noiseScaleDeg, ct.scalingFactor,
                                                       ScalingTechnique, ExecutionMode>>)
                      ELSE DecodeCall(scaled, <<>>)
        IN
        /\ plaintext' = Ptr(Decoded(decode.out))
        /\ call' = [c EXCEPT !.backend = <<decrypt, decode>>, !.ret = <<result>>]
        /\ UNCHANGED <<registry, threads, shared>>

\* the for loop over the vector, from element i on: the first throw, or "none"
FusionErrorOfFirstOnly(partialCiphertextVec, i) ==
    IF partialCiphertextVec[1] = nullptr \/ Mismatched(Deref(partialCiphertextVec[1]).cc)
    THEN "config_error"
    ELSE "none"
RECURSIVE FusionError(_, _)
FusionError(partialCiphertextVec, i) ==
    IF i > Len(partialCiphertextVec) THEN "none"
    ELSE IF partialCiphertextVec[i] = nullptr \/ Mismatched(Deref(partialCiphertextVec[i]).cc)
    THEN "config_error"
    ELSE IF Deref(partialCiphertextVec[i]).encoding # Deref(partialCiphertextVec[1]).encoding
    THEN "type_error"
    ELSE FusionError(partialCiphertextVec, i + 1)

\* DecryptResult result; if (last_ciphertext < 1) return result;
ThrowOnNoShares(c) == Throw(c, "config_error")
ReturnDefaultResult(c) ==
    /\ call' = [c EXCEPT !.ret = <<DefaultDecryptResult>>]
    /\ UNCHANGED <<registry, plaintext, threads, shared>>

MultipartyDecryptFusion(partialCiphertextVec, slot, result) ==
    LET c == [NoCall EXCEPT !.op = "MultipartyDecryptFusion", !.cts = partialCiphertextVec,
                            !.slot = slot] IN
    IF Len(partialCiphertextVec) < 1
    THEN ReturnDefaultResult(c)
    ELSE IF FusionError(partialCiphertextVec, 1) # "none"
    THEN Throw(c, FusionError(partialCiphertextVec, 1))
    ELSE
      LET ct == Deref(partialCiphertextVec[1])
          decrypted == GetPlaintextForDecrypt(ct.encoding, ct.towers)
          fusion == Backend("MultipartyDecryptFusion", <<DecryptElement(ct)>>, result)
      IN
      IF IsInvalid(result)
      THEN /\ call' = [c EXCEPT !.backend = <<fusion>>, !.ret = <<result>>]
           /\ UNCHANGED <<registry, plaintext, threads, shared>>
      ELSE
        LET scaled == [decrypted EXCEPT !.scalingFactorInt = result.scalingFactorInt]
            decryptedCKKS == [scaled EXCEPT !.slots = ct.slots]
            decode == IF ct.encoding = "CKKS_PACKED_ENCODING"
                      THEN DecodeCall(decryptedCKKS, <<ct.noiseScaleDeg, ct.scalingFactor,
                                                       ScalingTechnique, ExecutionMode>>)
                      ELSE DecodeCall(scaled, <<>>)
        IN
        IF ~slot THEN NullWrite([c EXCEPT !.backend = <<fusion, decode>>])
        ELSE /\ plaintext' = Ptr(Decoded(decode.out))
             /\ call' = [c EXCEPT !.backend = <<fusion, decode>>, !.ret = <<result>>]
             /\ UNCHANGED <<registry, threads, shared>>

NextDecrypt ==
    \/ \E ct \in DecryptCiphertexts, sk \in DecryptKeys, slot \in BOOLEAN,
          result \in BackendResults : Decrypt(ct, sk, slot, result)
    \/ \E cts \in DecryptCiphertextVectors, slot \in BOOLEAN, result \in BackendResults :
          MultipartyDecryptFusion(cts, slot, result)

SpecDecrypt == Init /\ [][NextDecrypt]_vars

----------------------------------------------------------------------------
(* Properties of decryption *)

\* C9: Decrypt throws config_error before any backend call when the ciphertext is
\* absent or of another context, the output pointer is null, or the secret key is
\* absent or of another context.
C9_DecryptValidation ==
    (/\ call.op = "Decrypt"
     /\ \/ call.cts[1] = nullptr
        \/ Foreign(call.cts[1])
        \/ ~call.slot
        \/ call.sk = nullptr
        \/ Deref(call.sk).cc # this) =>
        (call.err = "config_error" /\ call.backend = <<>>)

\* C10: when the backend returns a result that is not valid, Decrypt and
\* MultipartyDecryptFusion return that result, throw nothing, run no decode step (the
\* backend call is the only one) and leave the caller's plaintext as it was.
C10_SoftFailure ==
    [][ (/\ call'.op \in {"Decrypt", "MultipartyDecryptFusion"}
         /\ call'.backend # <<>>
         /\ call'.backend[1].out.isValid = FALSE) =>
          /\ call'.err = "none"
          /\ call'.ret = <<call'.backend[1].out>>
          /\ Len(call'.backend) = 1
          /\ plaintext' = plaintext
      ]_vars

\* a fusion has just come back not valid, the caller's pointer given, and the caller's
\* plaintext still holds what an earlier decryption left there
C10_Witness ==
    /\ call.op = "MultipartyDecryptFusion" /\ call.slot /\ call.err = "none"
    /\ call.backend # <<>> /\ call.backend[1].out.isValid = FALSE
    /\ call.ret = <<DefaultDecryptResult>>
    /\ plaintext # nullptr

\* C11: MultipartyDecryptFusion of an empty vector returns a result that is not valid,
\* throws nothing, makes no backend call and leaves the caller's plaintext as it was.
C11_FusionOfNothing ==
    [][ (call'.op = "MultipartyDecryptFusion" /\ call'.cts = <<>>) =>
          /\ call'.err = "none"
          /\ Len(call'.ret) = 1 /\ call'.ret[1].isValid = FALSE
          /\ call'.backend = <<>>
          /\ plaintext' = plaintext
      ]_vars

\* a fusion of no shares has returned, the caller's pointer given, and the caller's
\* plaintext still holds what an earlier decryption left there
C11_Witness ==
    /\ call.op = "MultipartyDecryptFusion" /\ call.cts = <<>> /\ call.slot
    /\ call.err = "none" /\ call.ret = <<DefaultDecryptResult>>
    /\ plaintext # nullptr /\ Deref(plaintext).decoded

AbsentOrForeign(ct) == ct = nullptr \/ Foreign(ct)
AnyAbsentOrForeign(cts) == \E i \in DOMAIN cts : AbsentOrForeign(cts[i])
EncodingsDiffer(cts) == \E i \in DOMAIN cts : Deref(cts[i]).encoding # Deref(cts[1]).encoding

\* C12: MultipartyDecryptFusion of a non-empty vector throws config_error when any
\* share, at any position, is absent or of another context, throws type_error when all
\* shares are of this context and some share's encoding differs from the first's, makes
\* no backend call in either case, and calls the backend only when neither is so.
C12_FusionValidation ==
    (call.op = "MultipartyDecryptFusion" /\ call.cts # <<>>) =>
        /\ AnyAbsentOrForeign(call.cts) =>
              (call.err = "config_error" /\ call.backend = <<>>)
        /\ (~AnyAbsentOrForeign(call.cts) /\ EncodingsDiffer(call.cts)) =>
              (call.err = "type_error" /\ call.backend = <<>>)
        /\ call.backend # <<>> =>
              (~AnyAbsentOrForeign(call.cts) /\ ~EncodingsDiffer(call.cts))

\* share i is the one the validation stops at: absent, of another context, or of an
\* encoding other than the first share's
ShareFails(cts, i) ==
    \/ AbsentOrForeign(cts[1])
    \/ AbsentOrForeign(cts[i])
    \/ Deref(cts[i]).encoding # Deref(cts[1]).encoding
FailingShares(cts) == {i \in DOMAIN cts : ShareFails(cts, i)}
FirstFailingShare(cts) == CHOOSE i \in FailingShares(cts) : \A j \in FailingShares(cts) : i <= j

\* C12 as amended: MultipartyDecryptFusion of a non-empty vector validates the shares
\* in order before any backend call and throws for the first share that fails:
\* config_error when that share is absent or of another context, type_error when its
\* encoding differs from the first share's; the backend is called only when every
\* share passes both checks.
C12_FusionValidationInOrder ==
    (call.op = "MultipartyDecryptFusion" /\ call.cts # <<>>) =>
        /\ FailingShares(call.cts) # {} =>
              /\ call.backend = <<>>
              /\ call.err = IF AbsentOrForeign(call.cts[FirstFailingShare(call.cts)])
                            THEN "config_error" ELSE "type_error"
        /\ call.backend # <<>> => FailingShares(call.cts) = {}
        /\ FailingShares(call.cts) = {} =>
              (call.backend # <<>> /\ call.backend[1].fn = "MultipartyDecryptFusion")

\* a fusion has thrown type_error for its second share, a share of another context
\* standing behind it
C12_Witness ==
    /\ call.op = "MultipartyDecryptFusion" /\ Len(call.cts) = 3
    /\ Owned(call.cts[1]) /\ Owned(call.cts[2]) /\ Foreign(call.cts[3])
    /\ Deref(call.cts[2]).encoding # Deref(call.cts[1]).encoding
    /\ call.err = "type_error" /\ call.backend = <<>>

----------------------------------------------------------------------------
(* Ring elements (DCRTPoly, not in this file): RingDimension coefficients   *)
(* in each of the limbs, in COEFFICIENT or EVALUATION format                *)

\* elementParams->GetRingDimension()
RingDimension == 2
\* elementParams->GetParams()[k]->GetModulus(), and a root of x^RingDimension + 1 for each
Moduli == <<17, 13>>
RootsOfUnity == <<4, 5>>
vecSize == Len(Moduli)
Limbs == 1..vecSize
Slots == 1..RingDimension

ModMul(a, b, q) == ((a % q) * (b % q)) % q
ModInverse(a, q) == CHOOSE x \in 0..(q - 1) : (a * x) % q = 1
RECURSIVE ModExp(_, _, _)
ModExp(b, e, q) == IF e = 0 THEN 1 ELSE ModMul(b, ModExp(b, e - 1, q), q)

\* the sum of f[1..n] modulo q
RECURSIVE ModSum(_, _, _)
ModSum(f, n, q) == IF n = 0 THEN 0 ELSE (ModSum(f, n - 1, q) + f[n]) % q

Poly(format, limbs) == [format |-> format, limbs |-> limbs]
ZeroPoly(format) == Poly(format, [k \in Limbs |-> [d \in Slots |-> 0]])

\* the number-theoretic transform of one limb and its inverse
ForwardTransform(values, k) ==
    [j \in Slots |->
        ModSum([d \in Slots |-> ModMul(values[d],
                                       ModExp(RootsOfUnity[k], (2 * j - 1) * (d - 1), Moduli[k]),
                                       Moduli[k])],
               RingDimension, Moduli[k])]
InverseTransform(values, k) ==
    LET nInverse == ModInverse(RingDimension, Moduli[k])
        rootInverse == ModInverse(RootsOfUnity[k], Moduli[k])
    IN [d \in Slots |->
           ModMul(nInverse,
                  ModSum([j \in Slots |->
                             ModMul(values[j],
                                    ModExp(rootInverse, (2 * j - 1) * (d - 1), Moduli[k]),
                                    Moduli[k])],
                         RingDimension, Moduli[k]),
                  Moduli[k])]

SetFormat(p, format) ==
    IF p.format = format THEN p
    ELSE Poly(format, [k \in Limbs |-> IF format = "EVALUATION"
                                        THEN ForwardTransform(p.limbs[k], k)
                                        ELSE InverseTransform(p.limbs[k], k)])

\* operator+ and operator- of two elements of one format
Plus(a, b) ==
    Poly(a.format, [k \in Limbs |-> [d \in Slots |-> (a.limbs[k][d] + b.limbs[k][d]) % Moduli[k]]])
Minus(a, b) ==
    Poly(a.format,
         [k \in Limbs |-> [d \in Slots |-> (a.limbs[k][d] + Moduli[k] - b.limbs[k][d]) % Moduli[k]]])

\* DCRTPoly(dug, elementParams, format): the i-th element a generator of the given seed draws
Seeds == 1..MaxSeed
Dug(seed, i, format) ==
    Poly(format, [k \in Limbs |-> [d \in Slots |->
                     (3 * seed + 5 * i * i + 7 * k + 11 * d * seed + i * d) % Moduli[k]]])

\* the secret key that is shared, with its private element
SharedKeys ==
    {Ptr([cc |-> this, tag |-> "tagA", element |-> Poly("EVALUATION", <<<<3, 16>>, <<12, 1>>>>)])}

----------------------------------------------------------------------------
(* Sharing a secret key: ShareKeys *)

Max(a, b) == IF a >= b THEN a ELSE b
ShareTypes == {"additive", "shamir", "other"}

\* the indices of S in ascending order
RECURSIVE Ascending(_)
Ascending(S) == IF S = {} THEN <<>> ELSE <<Min(S)>> \o Ascending(S \ {Min(S)})

\* the three conditions on N and threshold, in the order they are tested: the throw, or "none"
ShareKeysErrorOfFirstLimbOnly(N, threshold) ==
    IF N < 2 THEN "config_error"
    ELSE IF threshold <= N \div 2 THEN "config_error"
    ELSE IF N >= Moduli[1] THEN "math_error"
    ELSE "none"
ShareKeysError(N, threshold) ==
    IF N < 2 THEN "config_error"
    ELSE IF threshold <= N \div 2 THEN "config_error"
    ELSE IF \E k \in Limbs : N >= Moduli[k] THEN "math_error"
    ELSE "none"

\* SecretSharesVec: rsum as first drawn, the N - 3 elements added to it, and sk - rsum
AdditiveSharesVec(ske, N, seed) ==
    LET num_of_shares == N - 1
        drawn == 1 + Max(0, num_of_shares - 2)
        r == [i \in 1..drawn |-> Dug(seed, i, "EVALUATION")]
        rsumTo[i \in 1..drawn] == IF i = 1 THEN r[1] ELSE Plus(rsumTo[i - 1], r[i])
    IN [i \in 1..(drawn + 1) |-> IF i <= drawn THEN r[i] ELSE Minus(ske, rsumTo[drawn])]

\* what a read beyond the end of SecretSharesVec or sk_sharesElements meets: <<>> when
\* it ends the process, else <<the element read there>>
Beyond == {<<>>, <<Dug(2, 1, "EVALUATION")>>}

\* the parties the loop for (i = 1; i <= N; i++) if (i != index) assigns a share to
Recipients(N, index) == Ascending({i \in 1..N : i # index})

\* SecretShares[i] = SecretSharesVec[ctr] for the parties other than index, in ascending
\* order; an element read beyond the end of the vector is whatever the memory there holds
AdditiveShares(ske, N, index, seed, beyond) ==
    LET SecretSharesVec == AdditiveSharesVec(ske, N, seed)
        parties == Recipients(N, index)
        read(ctr) == IF ctr <= Len(SecretSharesVec) THEN SecretSharesVec[ctr] ELSE beyond
    IN [i \in {parties[ctr] : ctr \in DOMAIN parties} |->
            read(CHOOSE ctr \in DOMAIN parties : parties[ctr] = i)]

\* fs: the secret element in COEFFICIENT format and threshold - 1 drawn elements
ShamirPolynomial(ske, threshold, seed) ==
    [t \in 0..(threshold - 1) |-> IF t = 0 THEN SetFormat(ske, "COEFFICIENT")
                                   ELSE Dug(seed, t, "COEFFICIENT")]

\* feval: fs evaluated at party i, limb by limb and coefficient by coefficient; powtemp
\* is multiplied by i once for each t (and is not set to i for each t)
ShamirEvaluationOfFirstPower(fs, threshold, i) ==
    Poly("COEFFICIENT",
         [k \in Limbs |-> [l \in Slots |->
             (ModSum([t \in 1..(threshold - 1) |->
                         ModMul(i, fs[t].limbs[k][l], Moduli[k])],
                     threshold - 1, Moduli[k])
              + fs[0].limbs[k][l]) % Moduli[k]]])
ShamirEvaluation(fs, threshold, i) ==
    Poly("COEFFICIENT",
         [k \in Limbs |-> [l \in Slots |->
             (ModSum([t \in 1..(threshold - 1) |->
                         ModMul(ModExp(i, t, Moduli[k]), fs[t].limbs[k][l], Moduli[k])],
                     threshold - 1, Moduli[k])
              + fs[0].limbs[k][l]) % Moduli[k]]])

ShamirShares(ske, N, threshold, index, seed) ==
    LET fs == ShamirPolynomial(ske, threshold, seed)
    IN [i \in {j \in 1..N : j # index} |-> ShamirEvaluation(fs, threshold, i)]

ShareKeys(sk, N, threshold, index, shareType, seed) ==
    LET c == [NoCall EXCEPT !.op = "ShareKeys", !.sk = sk, !.N = N, !.threshold = threshold,
                            !.index = index, !.shareType = shareType]
        ske == Deref(sk).element
        SecretSharesVec == AdditiveSharesVec(ske, N, seed)
        \* the vector made and the values ctr takes in SecretSharesVec[ctr]
        ca == [c EXCEPT !.vec = SecretSharesVec,
                        !.reads = [ctr \in DOMAIN Recipients(N, index) |-> ctr]]
        Return(cr, SecretShares) ==
            /\ call' = [cr EXCEPT !.ret = <<SecretShares>>]
            /\ UNCHANGED <<registry, plaintext, threads, shared>>
    IN
    IF ShareKeysError(N, threshold) # "none"
    THEN Throw(c, ShareKeysError(N, threshold))
    ELSE IF shareType = "additive"
    THEN IF Len(Recipients(N, index)) <= Len(SecretSharesVec)
         THEN Return(ca, AdditiveShares(ske, N, index, seed, ZeroPoly("EVALUATION")))
         ELSE \E beyond \in Beyond :
                 IF beyond = <<>>
                 THEN Throw(ca, "segmentation_fault")
                 ELSE Return(ca, AdditiveShares(ske, N, index, seed, beyond[1]))
    ELSE IF shareType = "shamir"
    THEN Return(c, ShamirShares(ske, N, threshold, index, seed))
    ELSE Return(c, <<>>)

----------------------------------------------------------------------------
(* Recovering a shared secret key: RecoverSharedKey *)

\* the throws before the shares are looked at, in the order they are tested, or "none"
RecoverErrorIgnoringSize(sk, sk_shares, N, threshold) ==
    IF sk = nullptr THEN "config_error"
    ELSE ShareKeysError(N, threshold)
RecoverError(sk, sk_shares, N, threshold) ==
    IF sk = nullptr THEN "config_error"
    ELSE IF Cardinality(DOMAIN sk_shares) < threshold THEN "config_error"
    ELSE IF N < 2 THEN "config_error"
    ELSE IF threshold <= N \div 2 THEN "config_error"
    ELSE IF \E k \in Limbs : N >= Moduli[k] THEN "not_implemented_error"
    ELSE "none"

\* client_indexes: the parties 1..N found in the map, each pushed once (not twice) in
\* ascending order, and sorted
ClientIndexesPushedTwice(sk_shares, N) ==
    LET once == Ascending({i \in 1..N : i \in DOMAIN sk_shares})
    IN [n \in 1..(2 * Len(once)) |-> once[(n + 1) \div 2]]
ClientIndexes(sk_shares, N) == Ascending({i \in 1..N : i \in DOMAIN sk_shares})

\* duplicate_indexes: the values that stand twice in a row in client_indexes
DuplicateIndexes(client_indexes) ==
    {client_indexes[i] : i \in {j \in 2..Len(client_indexes) :
                                    client_indexes[j - 1] = client_indexes[j]}}

\* sum_of_elems: sk_sharesElements[0] + ... + sk_sharesElements[threshold - 1]; an element
\* read beyond the end of the vector is whatever the memory there holds
AdditiveSumOfAll(sk_sharesElements, threshold, beyond) ==
    LET read(i) == IF i <= Len(sk_sharesElements) THEN sk_sharesElements[i] ELSE beyond
        sumTo[i \in 1..Max(Len(sk_sharesElements), 1)] ==
            IF i = 1 THEN read(1) ELSE Plus(sumTo[i - 1], read(i))
    IN sumTo[Max(Len(sk_sharesElements), 1)]
AdditiveSum(sk_sharesElements, threshold, beyond) ==
    LET read(i) == IF i <= Len(sk_sharesElements) THEN sk_sharesElements[i] ELSE beyond
        sumTo[i \in 1..threshold] == IF i = 1 THEN read(1) ELSE Plus(sumTo[i - 1], read(i))
    IN sumTo[threshold]

\* denom_positive for client_indexes[i] - client_indexes[j] in limb k
DenomPositiveUncorrected(denominator, k) ==
    IF denominator < 0 THEN 0 - denominator ELSE denominator
DenomPositive(denominator, k) ==
    IF denominator < 0 THEN Moduli[k] - (0 - denominator) ELSE denominator

\* multpoly of party j in limb k: the product over the other parties i of
\* i * (i - j)^-1, the same in every coefficient
RECURSIVE LagrangeProduct(_, _, _, _)
LagrangeProduct(client_indexes, n, j, k) ==
    IF n = 0 THEN 1
    ELSE LET i == client_indexes[n]
             rest == LagrangeProduct(client_indexes, n - 1, j, k)
         IN IF i = j THEN rest
            ELSE ModMul(rest,
                        ModMul(i, ModInverse(DenomPositive(i - j, k), Moduli[k]), Moduli[k]),
                        Moduli[k])

\* Lagrange_coeffs[j]: multpoly set in every limb after multpoly.SetFormat(EVALUATION)
LagrangeCoeff(client_indexes, j) ==
    SetFormat(Poly("COEFFICIENT",
                   [k \in Limbs |-> [d \in Slots |->
                       LagrangeProduct(client_indexes, Len(client_indexes), j, k)]]),
              "EVALUATION")

\* lagrange_sum_of_elems: the coefficients set to COEFFICIENT format, multiplied
\* coefficient by coefficient with what the shares hold, summed, and set to EVALUATION
LagrangeSum(client_indexes, sk_shares) ==
    LET Lagrange_coeffs == [n \in DOMAIN client_indexes |->
                               SetFormat(LagrangeCoeff(client_indexes, client_indexes[n]),
                                         "COEFFICIENT")]
    IN SetFormat(
         Poly("COEFFICIENT",
              [k \in Limbs |-> [l \in Slots |->
                  ModSum([n \in DOMAIN client_indexes |->
                             ModMul(Lagrange_coeffs[n].limbs[k][l],
                                    sk_shares[client_indexes[n]].limbs[k][l], Moduli[k])],
                         Len(client_indexes), Moduli[k])]]),
         "EVALUATION")

SetPrivateElement(sk, element) == Ptr([Deref(sk) EXCEPT !.element = element])

\* the last branch is else if (shareType == "shamir"): any other string does nothing
RecoverSharedKeyShamirByDefault(sk, sk_shares, N, threshold, shareType) ==
    LET c == [NoCall EXCEPT !.op = "RecoverSharedKey", !.sk = sk, !.shares = sk_shares,
                            !.N = N, !.threshold = threshold, !.shareType = shareType,
                            !.target = sk]
        client_indexes == ClientIndexes(sk_shares, N)
        sk_sharesElements == [n \in DOMAIN client_indexes |-> sk_shares[client_indexes[n]]]
        Install(element) ==
            /\ call' = [c EXCEPT !.target = SetPrivateElement(sk, element)]
            /\ UNCHANGED <<registry, plaintext, threads, shared>>
    IN
    IF RecoverError(sk, sk_shares, N, threshold) # "none"
    THEN Throw(c, RecoverError(sk, sk_shares, N, threshold))
    ELSE IF DuplicateIndexes(client_indexes) # {} /\ Cardinality(DOMAIN sk_shares) = threshold
    THEN Throw(c, "config_error")
    ELSE IF shareType = "additive"
    THEN IF Len(sk_sharesElements) >= threshold
         THEN Install(AdditiveSum(sk_sharesElements, threshold, ZeroPoly("EVALUATION")))
         ELSE \E beyond \in Beyond :
                 IF beyond = <<>>
                 THEN Throw(c, "segmentation_fault")
                 ELSE Install(AdditiveSum(sk_sharesElements, threshold, beyond[1]))
    ELSE Install(LagrangeSum(client_indexes, sk_shares))
RecoverSharedKey(sk, sk_shares, N, threshold, shareType) ==
    LET c == [NoCall EXCEPT !.op = "RecoverSharedKey", !.sk = sk, !.shares = sk_shares,
                            !.N = N, !.threshold = threshold, !.shareType = shareType,
                            !.target = sk]
        client_indexes == ClientIndexes(sk_shares, N)
        sk_sharesElements == [n \in DOMAIN client_indexes |-> sk_shares[client_indexes[n]]]
        Install(element) ==
            /\ call' = [c EXCEPT !.target = SetPrivateElement(sk, element)]
            /\ UNCHANGED <<registry, plaintext, threads, shared>>
    IN
    IF RecoverError(sk, sk_shares, N, threshold) # "none"
    THEN Throw(c, RecoverError(sk, sk_shares, N, threshold))
    ELSE IF DuplicateIndexes(client_indexes) # {} /\ Cardinality(DOMAIN sk_shares) = threshold
    THEN Throw(c, "config_error")
    ELSE IF shareType = "additive"
    THEN IF Len(sk_sharesElements) >= threshold
         THEN Install(AdditiveSum(sk_sharesElements, threshold, ZeroPoly("EVALUATION")))
         ELSE \E beyond \in Beyond :
                 IF beyond = <<>>
                 THEN Throw(c, "segmentation_fault")
                 ELSE Install(AdditiveSum(sk_sharesElements, threshold, beyond[1]))
    ELSE IF shareType = "shamir"
    THEN Install(LagrangeSum(client_indexes, sk_shares))
    ELSE /\ call' = c
         /\ UNCHANGED <<registry, plaintext, threads, shared>>

----------------------------------------------------------------------------
(* Sharing and recovering with the same parameters: what one call of ShareKeys *)
(* returned, or a part of it, is handed to RecoverSharedKey                    *)

\* the key RecoverSharedKey installs the element in
RecoveryTarget ==
    Ptr([cc |-> this, tag |-> "tagA", element |-> Poly("EVALUATION", <<<<1, 1>>, <<1, 1>>>>)])

Restrict(m, S) == [i \in S |-> m[i]]

ShareAmongParties ==
    \E sk \in SharedKeys, N \in 2..MaxParties, threshold \in 2..MaxThreshold,
       shareType \in ShareTypes, seed \in Seeds :
        \E index \in 1..N : ShareKeys(sk, N, threshold, index, shareType, seed)

RecoverFromReturnedShares ==
    /\ call.op = "ShareKeys" /\ call.err = "none"
    /\ \E S \in SUBSET DOMAIN call.ret[1] :
          RecoverSharedKey(RecoveryTarget, Restrict(call.ret[1], S), call.N, call.threshold,
                           call.shareType)

NextShare == ShareAmongParties \/ RecoverFromReturnedShares

SpecShare == Init /\ [][NextShare]_vars

----------------------------------------------------------------------------
(* ShareKeys and RecoverSharedKey over any parameters and any share map *)

\* party counts and thresholds: the small ones, and those that reach the limb moduli
\* (Moduli[2] is at least the one and below the other)
PartyCounts == 0..MaxParties \cup {Moduli[2]}
Thresholds == 0..MaxThreshold \cup {Moduli[1] \div 2 + 1}

\* the share maps a caller holds: party indices in and out of 1..N, and one map large
\* enough for the largest threshold
ShareMapDomains == {{}, {2}, {1, 4}, {1, 2, 4}, 1..(Moduli[1] \div 2 + 1)}
ShareMaps == {[i \in D |-> Dug(1, i, "EVALUATION")] : D \in ShareMapDomains}

ShareWithAnyParameters ==
    \E sk \in SharedKeys, N \in PartyCounts, threshold \in Thresholds, shareType \in ShareTypes :
        ShareKeys(sk, N, threshold, 1, shareType, 1)

RecoverWithAnyParameters ==
    \E sk \in {nullptr, RecoveryTarget}, sk_shares \in ShareMaps, N \in PartyCounts,
       threshold \in Thresholds, shareType \in ShareTypes :
        RecoverSharedKey(sk, sk_shares, N, threshold, shareType)

NextShareArgs == ShareWithAnyParameters \/ RecoverWithAnyParameters

SpecShareArgs == Init /\ [][NextShareArgs]_vars

----------------------------------------------------------------------------
(* Properties of sharing and recovering *)

ShareOps == {"ShareKeys", "RecoverSharedKey"}
\* the conditions on N and threshold as written down
BadRelation(N, threshold) == N < 2 \/ threshold <= N \div 2
ReachesModulus(N) == \E k \in Limbs : N >= Moduli[k]
\* a throw of the method, as opposed to a return or the end of the process
Thrown(c) == c.err \notin {"none", "segmentation_fault"}

\* C13: for every share type, ShareKeys and RecoverSharedKey throw when N < 2, when
\* threshold <= N / 2 or when N is at least some limb modulus; ShareKeys then returns
\* no share and RecoverSharedKey leaves the key it was handed as it was.
C13_ParametersRejected ==
    (call.op \in ShareOps /\ (BadRelation(call.N, call.threshold) \/ ReachesModulus(call.N))) =>
        /\ Thrown(call)
        /\ call.ret = <<>>
        /\ call.target = (IF call.op = "RecoverSharedKey" THEN call.sk ELSE nullptr)

\* both methods have thrown for a party count that is below the first modulus and not
\* below the second, the threshold a majority
C13_Witness ==
    /\ call.op = "RecoverSharedKey" /\ call.sk # nullptr
    /\ ~BadRelation(call.N, call.threshold)
    /\ call.N < Moduli[1] /\ call.N >= Moduli[2]
    /\ Cardinality(DOMAIN call.shares) >= call.threshold
    /\ Thrown(call) /\ call.target = RecoveryTarget

\* C14: what ShareKeys and RecoverSharedKey throw is config_error when N < 2 or
\* threshold <= N / 2, math_error when N is at least some limb modulus (and nothing
\* else is wrong), and never anything but these two.
C14_ErrorKinds ==
    call.op \in ShareOps =>
        /\ BadRelation(call.N, call.threshold) => call.err = "config_error"
        /\ (/\ ~BadRelation(call.N, call.threshold)
            /\ ReachesModulus(call.N)
            /\ call.op = "RecoverSharedKey" =>
                  (call.sk # nullptr /\ Cardinality(DOMAIN call.shares) >= call.threshold))
              => call.err = "math_error"
        /\ Thrown(call) => call.err \in {"config_error", "math_error"}

\* the sum of all the elements of a share map
RECURSIVE SumOfShares(_, _)
SumOfShares(shares, S) ==
    IF S = {} THEN ZeroPoly("EVALUATION")
    ELSE Plus(SumOfShares(shares, S \ {Min(S)}), shares[Min(S)])

\* C15: additive ShareKeys with N >= 2, threshold > N / 2, N below every modulus and the
\* sharer's index in 1..N returns N - 1 shares, one for each party but the sharer, and
\* their sum is the secret element in every limb.
C15_AdditiveSplit ==
    (/\ call.op = "ShareKeys" /\ call.shareType = "additive"
     /\ ~BadRelation(call.N, call.threshold) /\ ~ReachesModulus(call.N)
     /\ call.index \in 1..call.N) =>
        /\ call.err = "none"
        /\ Len(call.ret) = 1
        /\ DOMAIN call.ret[1] = (1..call.N) \ {call.index}
        /\ SumOfShares(call.ret[1], DOMAIN call.ret[1]) = Deref(call.sk).element

\* RecoverSharedKey is handed, with the parameters of the sharing, shares that the
\* ShareKeys call before it returned
RecoversReturnedShares(shareType) ==
    /\ call.op = "ShareKeys" /\ call.err = "none" /\ call.shareType = shareType
    /\ call'.op = "RecoverSharedKey" /\ call'.shareType = shareType
    /\ call'.N = call.N /\ call'.threshold = call.threshold
    /\ DOMAIN call'.shares \subseteq DOMAIN call.ret[1]
    /\ \A i \in DOMAIN call'.shares : call'.shares[i] = call.ret[1][i]

\* C16: after a Shamir ShareKeys with threshold <= N - 1, a Shamir RecoverSharedKey on
\* any threshold or more of the returned shares throws nothing and installs an element
\* equal to the secret element, format, limbs and coefficients.
C16_ShamirRoundTrip ==
    [][ (/\ RecoversReturnedShares("shamir")
         /\ call.threshold <= call.N - 1
         /\ Cardinality(DOMAIN call'.shares) >= call.threshold) =>
          /\ call'.err = "none"
          /\ Deref(call'.target).element = Deref(call.sk).element
      ]_vars

\* three of the four shares of a sharing among five with threshold three have been
\* recovered from, and the target holds the shared secret
C16_Witness ==
    /\ call.op = "RecoverSharedKey" /\ call.shareType = "shamir" /\ call.err = "none"
    /\ call.N = 5 /\ call.threshold = 3 /\ Cardinality(DOMAIN call.shares) = 3
    /\ \E sk \in SharedKeys : Deref(call.target).element = Deref(sk).element
    /\ Deref(call.target).element # Deref(call.sk).element

\* C17: RecoverSharedKey throws config_error when the key it is handed is null or the
\* map holds fewer than threshold shares, and whenever it fails the key is left as it
\* was handed in.
C17_RecoverFailure ==
    call.op = "RecoverSharedKey" =>
        /\ call.sk = nullptr => call.err = "config_error"
        /\ Cardinality(DOMAIN call.shares) < call.threshold => call.err = "config_error"
        /\ call.err # "none" => call.target = call.sk

\* a recovery with good parameters and too few shares has thrown, the key untouched
C17_Witness ==
    /\ call.op = "RecoverSharedKey" /\ call.sk = RecoveryTarget
    /\ ~BadRelation(call.N, call.threshold) /\ ~ReachesModulus(call.N)
    /\ Cardinality(DOMAIN call.shares) = 1 /\ call.threshold = 2
    /\ call.err = "config_error" /\ call.target = RecoveryTarget

\* C18: RecoverSharedKey with good parameters and a map of exactly threshold shares of
\* which fewer than threshold are shares of parties 1..N throws config_error.
C18_TooFewUsableShares ==
    (/\ call.op = "RecoverSharedKey" /\ call.sk # nullptr
     /\ ~BadRelation(call.N, call.threshold) /\ ~ReachesModulus(call.N)
     /\ Cardinality(DOMAIN call.shares) = call.threshold
     /\ Cardinality(DOMAIN call.shares \cap 1..call.N) < call.threshold) =>
        call.err = "config_error"

\* the t lowest of a set of party indices
RECURSIVE Lowest(_, _)
Lowest(S, t) == IF t = 0 \/ S = {} THEN {} ELSE {Min(S)} \cup Lowest(S \ {Min(S)}, t - 1)

----------------------------------------------------------------------------
(* Loading keys made elsewhere: InsertEvalMultKey, InsertEvalSumKey and      *)
(* InsertEvalAutomorphismKey                                                 *)

\* a key handed in by the caller: a new object of this context with any tag
LoadedKey(tag) == [tag |-> tag, cc |-> this, serial |-> FreshSerial]
\* the vectors and maps a caller hands in; what an empty map holds is no key
LoadedVectors == UNION {{[i \in 1..n |-> LoadedKey(tags[i])] : tags \in [1..n -> KeyTags]} :
                            n \in 0..MaxChain}
LoadedMaps == UNION {{[i \in S |-> LoadedKey(tags[i])] : tags \in [S -> KeyTags]} :
                         S \in SUBSET Indices}

\* what ->GetKeyTag() gives for the first key of a vector or map that holds none
\* (vectorToInsert[0] of an empty vector, begin() of an empty map): <<>> when the read
\* ends the process, else <<the tag read there>>
WildTags == {<<>>} \cup {<<t>> : t \in KeyTags}

InsertEvalMultKey(vectorToInsert) ==
    LET c == [NoCall EXCEPT !.op = "InsertEvalMultKey", !.keys = vectorToInsert] IN
    IF vectorToInsert # <<>>
    THEN /\ evalMultKeyMap' = Put(evalMultKeyMap, vectorToInsert[1].tag, vectorToInsert)
         /\ call' = c
         /\ UNCHANGED <<evalSumKeyMap, evalAutomorphismKeyMap, plaintext, threads, shared>>
    ELSE \E wild \in WildTags :
            IF wild = <<>> THEN Throw(c, "segmentation_fault")
            ELSE /\ evalMultKeyMap' = Put(evalMultKeyMap, wild[1], vectorToInsert)
                 /\ call' = c
                 /\ UNCHANGED <<evalSumKeyMap, evalAutomorphismKeyMap, plaintext, threads, shared>>

InsertEvalSumKey(mapToInsert) ==
    /\ evalSumKeyMap' = IF DOMAIN mapToInsert # {}
                        THEN Put(evalSumKeyMap, mapToInsert[Min(DOMAIN mapToInsert)].tag,
                                 mapToInsert)
                        ELSE evalSumKeyMap
    /\ call' = [NoCall EXCEPT !.op = "InsertEvalSumKey", !.keys = mapToInsert]
    /\ shared' = IF DOMAIN mapToInsert # {}
                 THEN shared \ {mapToInsert[Min(DOMAIN mapToInsert)].tag}
                 ELSE shared
    /\ UNCHANGED <<evalMultKeyMap, evalAutomorphismKeyMap, plaintext, threads>>

\* no test of mapToInsert->empty() here; the map is assigned (and is not merged into
\* the entry there, as the key generations do)
InsertEvalAutomorphismKeyMerging(mapToInsert) ==
    LET c == [NoCall EXCEPT !.op = "InsertEvalAutomorphismKey", !.keys = mapToInsert] IN
    IF DOMAIN mapToInsert # {}
    THEN /\ evalAutomorphismKeyMap' =
               StoreAutomorphismKeys(mapToInsert[Min(DOMAIN mapToInsert)].tag, mapToInsert)
         /\ call' = c
         /\ shared' = shared \ {mapToInsert[Min(DOMAIN mapToInsert)].tag}
         /\ UNCHANGED <<evalMultKeyMap, evalSumKeyMap, plaintext, threads>>
    ELSE \E wild \in WildTags :
            IF wild = <<>> THEN Throw(c, "segmentation_fault")
            ELSE /\ evalAutomorphismKeyMap' = Put(evalAutomorphismKeyMap, wild[1], mapToInsert)
                 /\ call' = c
                 /\ shared' = shared \ {wild[1]}
                 /\ UNCHANGED <<evalMultKeyMap, evalSumKeyMap, plaintext, threads>>
InsertEvalAutomorphismKey(mapToInsert) ==
    LET c == [NoCall EXCEPT !.op = "InsertEvalAutomorphismKey", !.keys = mapToInsert] IN
    IF DOMAIN mapToInsert # {}
    THEN /\ evalAutomorphismKeyMap' =
               Put(evalAutomorphismKeyMap, mapToInsert[Min(DOMAIN mapToInsert)].tag, mapToInsert)
         /\ call' = c
         /\ shared' = shared \ {mapToInsert[Min(DOMAIN mapToInsert)].tag}
         /\ UNCHANGED <<evalMultKeyMap, evalSumKeyMap, plaintext, threads>>
    ELSE \E wild \in WildTags :
            IF wild = <<>> THEN Throw(c, "segmentation_fault")
            ELSE /\ evalAutomorphismKeyMap' = Put(evalAutomorphismKeyMap, wild[1], mapToInsert)
                 /\ call' = c
                 /\ shared' = shared \ {wild[1]}
                 /\ UNCHANGED <<evalMultKeyMap, evalSumKeyMap, plaintext, threads>>

\* the first key of a stored entry: it->second[0], it->second->begin()->second
FirstKey(entry) == entry[Min(DOMAIN entry)]
EmptyEntries(store) == {t \in DOMAIN store : DOMAIN store[t] = {}}

\* the loop of ClearEval...Keys(cc): erase the entries whose first key is of context cc;
\* for an entry that holds no key the comparison reads what is not there, and `wild'
\* is the set of those entries for which it comes out equal
ClearByContext(store, cc, wild) ==
    LET kept == {t \in DOMAIN store : IF DOMAIN store[t] = {} THEN t \notin wild
                                      ELSE FirstKey(store[t]).cc # cc}
    IN [t \in kept |-> store[t]]
\* what the reads of the first keys of the entries that hold none come to: <<>> when
\* one of them ends the process, else <<the entries that compare equal to cc>>
WildClears(store) == IF EmptyEntries(store) = {} THEN {<<{}>>}
                     ELSE {<<>>} \cup {<<S>> : S \in SUBSET EmptyEntries(store)}

ClearEvalMultKeysByContext(cc) ==
    LET c == [NoCall EXCEPT !.op = "ClearEvalMultKeys(cc)", !.cc = cc] IN
    \E wild \in WildClears(evalMultKeyMap) :
        IF wild = <<>> THEN Throw(c, "segmentation_fault")
        ELSE /\ evalMultKeyMap' = ClearByContext(evalMultKeyMap, cc, wild[1])
             /\ call' = c
             /\ UNCHANGED <<evalSumKeyMap, evalAutomorphismKeyMap, plaintext, threads, shared>>

ClearEvalSumKeysByContext(cc) ==
    LET c == [NoCall EXCEPT !.op = "ClearEvalSumKeys(cc)", !.cc = cc] IN
    \E wild \in WildClears(evalSumKeyMap) :
        IF wild = <<>> THEN Throw(c, "segmentation_fault")
        ELSE /\ evalSumKeyMap' = ClearByContext(evalSumKeyMap, cc, wild[1])
             /\ call' = c
             /\ shared' = shared \cap DOMAIN ClearByContext(evalSumKeyMap, cc, wild[1])
             /\ UNCHANGED <<evalMultKeyMap, evalAutomorphismKeyMap, plaintext, threads>>

ClearEvalAutomorphismKeysByContext(cc) ==
    LET c == [NoCall EXCEPT !.op = "ClearEvalAutomorphismKeys(cc)", !.cc = cc] IN
    \E wild \in WildClears(evalAutomorphismKeyMap) :
        IF wild = <<>> THEN Throw(c, "segmentation_fault")
        ELSE /\ evalAutomorphismKeyMap' = ClearByContext(evalAutomorphismKeyMap, cc, wild[1])
             /\ call' = c
             /\ shared' = shared \cap DOMAIN ClearByContext(evalAutomorphismKeyMap, cc, wild[1])
             /\ UNCHANGED <<evalMultKeyMap, evalSumKeyMap, plaintext, threads>>

InsertRaw ==
    /\ CanAllocate
    /\ \/ \E vectorToInsert \in LoadedVectors : InsertEvalMultKey(vectorToInsert)
       \/ \E mapToInsert \in LoadedMaps : InsertEvalSumKey(mapToInsert)
       \/ \E mapToInsert \in LoadedMaps : InsertEvalAutomorphismKey(mapToInsert)

\* key generation that FillRegistry leaves out: any index list, any length of vector
GenerateAnyNumber ==
    \/ \E key \in OwnPrivateKeys : EvalMultKeysGen(key)
    \/ \E sk \in OwnPrivateKeys, indexList \in SUBSET Indices :
          EvalAtIndexKeyGen(sk, indexList, nullptr)

ClearOfContext ==
    \/ \E cc \in Contexts : ClearEvalMultKeysByContext(cc)
    \/ \E cc \in Contexts : ClearEvalSumKeysByContext(cc)
    \/ \E cc \in Contexts : ClearEvalAutomorphismKeysByContext(cc)

NextInsert == InsertRaw \/ FillRegistry \/ GenerateAnyNumber \/ ClearOfContext

SpecInsert == Init /\ [][NextInsert]_vars

\* C20: in every state reached by key generation, the three insert methods and the
\* clear methods, every key stored under a tag, in each of the three stores, carries
\* that tag.
C20_TagHomogeneity ==
    \A store \in {evalMultKeyMap, evalSumKeyMap, evalAutomorphismKeyMap} :
        \A keyTag \in DOMAIN store :
            \A i \in DOMAIN store[keyTag] : store[keyTag][i].tag = keyTag

----------------------------------------------------------------------------
(* The automorphism keys on their own: the five key generations that write *)
(* them and the two evaluations that read them, with nothing clearing them *)

RotationKeyGen ==
    \/ \E sk \in OwnPrivateKeys, indexList \in SUBSET Indices :
          EvalAtIndexKeyGen(sk, indexList, nullptr)
    \/ \E sk \in OwnPrivateKeys : EvalBootstrapKeyGen(sk)
    \/ \E sk \in OwnPrivateKeys : EvalCKKStoFHEWKeyGen(sk)
    \/ \E sk \in OwnPrivateKeys : EvalFHEWtoCKKSKeyGen(sk)
    \/ \E sk \in OwnPrivateKeys : EvalSchemeSwitchingKeyGen(sk)

Rotation ==
    \/ \E ct \in EvalCiphertexts, index \in 0..MaxIndex : EvalAtIndex(ct, index)
    \/ \E cts \in EvalCiphertextVectors : EvalMerge(cts)

NextRotation == RotationKeyGen \/ Rotation

SpecRotation == Init /\ [][NextRotation]_vars

\* C21: the four bootstrap and scheme-switching key generations merge into the same
\* per-tag entry as EvalAtIndexKeyGen.  With no clear and no insert in between: each of
\* the five leaves under the tag the union of the indices cached before and the indices
\* it produced, an index cached before keeps its key and a new index takes the key just
\* produced; no step ever replaces or removes a cached key (so each index holds the key
\* of the earliest call that produced it); and EvalAtIndex with a nonzero index, or
\* EvalMerge, on a ciphertext of a tag that any of the five has written does not throw
\* not_available_error and hands the backend the entry as cached.
C21_SharedAutomorphismStore ==
    [][ /\ (call'.op \in AutomorphismKeyGenOps /\ call'.err = "none") =>
              LET keyTag == Deref(call'.sk).tag
                  produced == call'.backend[1].out
                  before == EntryOrEmpty(evalAutomorphismKeyMap, keyTag)
                  after == EntryOrEmpty(evalAutomorphismKeyMap', keyTag)
              IN /\ keyTag \in DOMAIN evalAutomorphismKeyMap'
                 /\ DOMAIN after = (DOMAIN before) \cup (DOMAIN produced)
                 /\ \A i \in (DOMAIN produced) \ (DOMAIN before) : after[i] = produced[i]
        /\ \A keyTag \in DOMAIN evalAutomorphismKeyMap :
              /\ keyTag \in DOMAIN evalAutomorphismKeyMap'
              /\ \A i \in DOMAIN evalAutomorphismKeyMap[keyTag] :
                    /\ i \in DOMAIN evalAutomorphismKeyMap'[keyTag]
                    /\ evalAutomorphismKeyMap'[keyTag][i] = evalAutomorphismKeyMap[keyTag][i]
        /\ (/\ call'.op \in {"EvalAtIndex", "EvalMerge"}
            /\ ReadsRegistry(call')
            /\ Owned(call'.cts[1])
            /\ Deref(call'.cts[1]).tag \in DOMAIN evalAutomorphismKeyMap) =>
              /\ call'.err = "none"
              /\ call'.backend[1].passed = <<evalAutomorphismKeyMap[Deref(call'.cts[1]).tag]>>
      ]_vars

\* a bootstrap key generation has just merged into an entry that an earlier generation
\* made: one index kept the older key although the call produced a key for it too, and
\* another index took the key the call produced
C21_Witness ==
    /\ call.op = "EvalBootstrapKeyGen" /\ call.err = "none"
    /\ LET entry == evalAutomorphismKeyMap[Deref(call.sk).tag]
           produced == call.backend[1].out
       IN /\ \E i \in DOMAIN produced : entry[i] # produced[i]
          /\ \E j \in DOMAIN produced : entry[j] = produced[j]

----------------------------------------------------------------------------
(* Properties of decryption: the representation and the post-processing *)

DecryptOps == {"Decrypt", "MultipartyDecryptFusion"}
\* the ciphertext a decryption takes its encoding, limbs and metadata from
MetadataSource(c) == Deref(c.cts[1])

\* C22: whenever Decrypt or MultipartyDecryptFusion reaches the backend, it hands it
\* the wide multi-limb element when the ciphertext (the first share) holds more than
\* one limb and the narrow single-limb element when it holds exactly one, whatever the
\* encoding.
C22_RepresentationByLimbs ==
    (call.op \in DecryptOps /\ call.backend # <<>>) =>
        call.backend[1].passed =
            <<IF MetadataSource(call).towers > 1 THEN "Poly" ELSE "NativePoly">>

\* C22 as amended: the wide multi-limb element is chosen exactly when the encoding is
\* the packed floating-point one and the ciphertext (the first share) holds more than
\* one limb; every other ciphertext, also one of several limbs, takes the narrow
\* single-limb element; and the plaintext that is decoded was made over the same choice.
C22_RepresentationByEncodingAndLimbs ==
    (call.op \in DecryptOps /\ call.backend # <<>>) =>
        LET ct == MetadataSource(call)
            chosen == IF ct.encoding = "CKKS_PACKED_ENCODING" /\ ct.towers > 1
                      THEN "Poly" ELSE "NativePoly"
        IN /\ call.backend[1].passed = <<chosen>>
           /\ Len(call.backend) > 1 => call.backend[2].out.params = chosen

\* a ciphertext of two limbs that is not packed floating-point has been decrypted into
\* the narrow element, and the caller's plaintext is one made over it
C22_Witness ==
    /\ call.op = "Decrypt" /\ call.err = "none" /\ Len(call.backend) = 2
    /\ MetadataSource(call).towers = 2
    /\ MetadataSource(call).encoding = "PACKED_ENCODING"
    /\ call.backend[1].passed = <<"NativePoly">>
    /\ Deref(plaintext).params = "NativePoly"

----------------------------------------------------------------------------
(* ShareKeys called with any sharer index, also one that names no party *)

ShareWithAnyIndex ==
    \E sk \in SharedKeys, N \in 2..MaxParties, threshold \in 2..MaxThreshold,
       index \in 0..(MaxParties + 1), shareType \in ShareTypes, seed \in Seeds :
        ShareKeys(sk, N, threshold, index, shareType, seed)

NextShareIndex == ShareWithAnyIndex

SpecShareIndex == Init /\ [][NextShareIndex]_vars

\* C23: additive ShareKeys that passes its tests on N and threshold, whatever the sharer
\* index (also an index outside 1..N), returns; every read SecretSharesVec[ctr] is of an
\* element the vector holds, no two recipients read the same element, each recipient is
\* given the element read for it, and the recipients are no more than the shares made.
C23_AdditiveAssignmentInBounds ==
    (/\ call.op = "ShareKeys" /\ call.shareType = "additive"
     /\ ShareKeysError(call.N, call.threshold) = "none") =>
        LET parties == Recipients(call.N, call.index) IN
        /\ call.err = "none"
        /\ Len(parties) <= Len(call.vec)
        /\ \A n \in DOMAIN call.reads : call.reads[n] \in DOMAIN call.vec
        /\ \A n, o \in DOMAIN call.reads : n # o => call.reads[n] # call.reads[o]
        /\ call.ret # <<>> /\ DOMAIN call.ret[1] = {parties[n] : n \in DOMAIN parties}
        /\ \A n \in DOMAIN parties : call.ret[1][parties[n]] = call.vec[call.reads[n]]

\* C24: a RecoverSharedKey that passes its tests and reconstructs has collected at
\* least threshold shares of parties 1..N, whatever keys the map holds: the additive sum
\* reads no element beyond those collected (the call does not end in a wild read) and
\* the shamir interpolation runs over at least threshold points.
C24_EnoughSharesUsed ==
    (/\ call.op = "RecoverSharedKey"
     /\ call.shareType \in {"additive", "shamir"}
     /\ RecoverError(call.sk, call.shares, call.N, call.threshold) = "none") =>
        /\ Len(ClientIndexes(call.shares, call.N)) >= call.threshold
        /\ call.err # "segmentation_fault"

\* C25: after a valid backend result, MultipartyDecryptFusion hands to the final decode
\* step, as Decrypt does, a plaintext whose integer scaling factor is the result's and
\* which, for the packed floating-point encoding, carries the noise degree, the level,
\* the scaling factor and the slot count of the ciphertext (for fusion: the first share).
C25_FusionMirrorsDecrypt ==
    (call.op \in DecryptOps /\ Len(call.backend) = 2) =>
        LET ct == MetadataSource(call)
            decoded == call.backend[2].out
        IN /\ decoded.scalingFactorInt = call.backend[1].out.scalingFactorInt
           /\ ct.encoding = "CKKS_PACKED_ENCODING" =>
                 /\ decoded.noiseScaleDeg = ct.noiseScaleDeg
                 /\ decoded.level = ct.level
                 /\ decoded.scalingFactor = ct.scalingFactor
                 /\ decoded.slots = ct.slots

\* C26: in every state reached by key generation (also with an empty index list), the
\* insert methods and the clear methods, every entry of the three stores holds at least
\* one key, and no clear of a context ends in a read of a first key that is not there.
C26_NoEmptyEntry ==
    /\ \A store \in {evalMultKeyMap, evalSumKeyMap, evalAutomorphismKeyMap} :
          EmptyEntries(store) = {}
    /\ call.op \in {"ClearEvalMultKeys(cc)", "ClearEvalSumKeys(cc)",
                    "ClearEvalAutomorphismKeys(cc)"} => call.err = "none"

\* strictly increasing
Increasing(seq) == \A n \in 2..Len(seq) : seq[n - 1] < seq[n]

\* C27: in every RecoverSharedKey that gets as far as collecting them, client_indexes
\* is strictly increasing (so without duplicates) and holds only parties of 1..N that
\* the map has a share of, duplicate_indexes is empty, and the config_error 'Not enough
\* shares to recover the secret' is not thrown.
C27_NoDuplicateIndexes ==
    (/\ call.op = "RecoverSharedKey"
     /\ RecoverError(call.sk, call.shares, call.N, call.threshold) = "none") =>
        LET client_indexes == ClientIndexes(call.shares, call.N) IN
        /\ Increasing(client_indexes)
        /\ \A n \in DOMAIN client_indexes :
              client_indexes[n] \in (1..call.N) \cap DOMAIN call.shares
        /\ DuplicateIndexes(client_indexes) = {}
        /\ call.err # "config_error"

\* a recovery from exactly threshold shares, one of them of no party of 1..N, has gone
\* through with nothing thrown
C27_Witness ==
    /\ call.op = "RecoverSharedKey" /\ call.shareType = "shamir" /\ call.err = "none"
    /\ Cardinality(DOMAIN call.shares) = call.threshold
    /\ Len(ClientIndexes(call.shares, call.N)) < call.threshold
    /\ call.target # call.sk

----------------------------------------------------------------------------
(* Automorphism key generation and lookups called from two threads with no *)
(* lock around them: the context has none of its own, so every access to   *)
(* the store's map is a step of its own and the threads' steps interleave   *)

\* the automorphism indices the backend makes keys for, the generations the threads
\* call (all five share the body), and the tag of the secret key they all use
WorkerIndices == 0..MaxIndex
WorkerKeyGenOps == {"EvalAtIndexKeyGen", "EvalBootstrapKeyGen"}
WorkerTag == "tagA"

\* a key generation between its backend call and its last access to the map
InFlight(frame) == frame.pc \in {"find", "assign", "merge"}
\* a key generation that has made its last access and has not returned yet
Finished(frame) == frame.pc = "done" /\ frame.op \in WorkerKeyGenOps

\* the keys the backend has handed to calls that have not returned yet
HeldSerials ==
    UNION {{threads[t].evalKeys[i].serial : i \in DOMAIN threads[t].evalKeys} :
               t \in {o \in Threads : InFlight(threads[o]) \/ Finished(threads[o])}}
WorkerSerials == Serials \ (UsedSerials \cup HeldSerials)

\* the entry of the tag as a lookup finds it: <<>> when there is none
CurrentEntry(map) == IF WorkerTag \in DOMAIN map THEN <<map[WorkerTag]>> ELSE <<>>

\* auto evalKeys = GetScheme()->...KeyGen(...): the call starts, the backend returns
BeginKeyGen(t, op, S) ==
    /\ threads[t].pc = "idle"
    /\ WorkerSerials # {}
    /\ LET evalKeys == [i \in S |-> [tag |-> WorkerTag, cc |-> this, serial |-> Min(WorkerSerials)]]
           overlapped == {o \in Threads \ {t} : InFlight(threads[o])}
       IN threads' = [o \in Threads |->
                         IF o = t
                         THEN [pc |-> "find", op |-> op, evalKeys |-> evalKeys,
                               before |-> CurrentEntry(evalAutomorphismKeyMap),
                               found |-> FALSE, rest |-> S, alone |-> overlapped = {}]
                         ELSE IF o \in overlapped THEN [threads[o] EXCEPT !.alone = FALSE]
                         ELSE threads[o]]
    /\ UNCHANGED <<registry, plaintext, call, shared>>

\* ekv == GetAllEvalAutomorphismKeys().end()
TagNeverFound(map, keyTag) == FALSE
TagFound(map, keyTag) == keyTag \in DOMAIN map

\* auto ekv = GetAllEvalAutomorphismKeys().find(keyTag)
FindTag(t) ==
    /\ threads[t].pc = "find"
    /\ threads' = [threads EXCEPT ![t].found = TagFound(evalAutomorphismKeyMap, WorkerTag),
                                  ![t].pc = IF TagFound(evalAutomorphismKeyMap, WorkerTag)
                                            THEN "merge" ELSE "assign"]
    /\ UNCHANGED <<registry, plaintext, call, shared>>

\* GetAllEvalAutomorphismKeys()[keyTag] = evalKeys
AssignEntry(t) ==
    /\ threads[t].pc = "assign"
    /\ evalAutomorphismKeyMap' = Put(evalAutomorphismKeyMap, WorkerTag, threads[t].evalKeys)
    /\ threads' = [threads EXCEPT ![t].pc = "done", ![t].rest = {}]
    /\ shared' = shared \ {WorkerTag}
    /\ UNCHANGED <<evalMultKeyMap, evalSumKeyMap, plaintext, call>>

\* one turn of the while loop: if (currRotMap.find(idx) == currRotMap.end()) insert
MergeIterationOverwriting(currRotMap, evalKeys, idx) == Put(currRotMap, idx, evalKeys[idx])
MergeIteration(currRotMap, evalKeys, idx) ==
    IF idx \notin DOMAIN currRotMap THEN Put(currRotMap, idx, evalKeys[idx]) ELSE currRotMap

MergeNext(t) ==
    /\ threads[t].pc = "merge"
    /\ LET idx == Min(threads[t].rest)
           currRotMap == evalAutomorphismKeyMap[WorkerTag]
       IN /\ evalAutomorphismKeyMap' =
                 Put(evalAutomorphismKeyMap, WorkerTag,
                     MergeIteration(currRotMap, threads[t].evalKeys, idx))
          /\ evalSumKeyMap' =
                 SummationKeysBeside(WorkerTag,
                     Put(evalAutomorphismKeyMap, WorkerTag,
                         MergeIteration(currRotMap, threads[t].evalKeys, idx)))
          /\ threads' = [threads EXCEPT ![t].rest = @ \ {idx},
                                        ![t].pc = IF threads[t].rest = {idx}
                                                  THEN "done" ELSE "merge"]
    /\ UNCHANGED <<evalMultKeyMap, plaintext, call, shared>>

\* GetEvalAutomorphismKeyMap(keyTag) on a thread: what it finds at this moment
ReadEntry(t) ==
    /\ threads[t].pc = "idle"
    /\ LET ekv == GetEvalAutomorphismKeyMap(WorkerTag) IN
         threads' = [threads EXCEPT ![t] = [pc |-> "done", op |-> "GetEvalAutomorphismKeyMap",
                                            err |-> ekv.err, observed |-> ekv.entry]]
    /\ UNCHANGED <<registry, plaintext, call, shared>>

\* the call returns to the thread's caller
Return(t) ==
    /\ threads[t].pc = "done"
    /\ threads' = [threads EXCEPT ![t] = Idle]
    /\ UNCHANGED <<registry, plaintext, call, shared>>

NextThreads ==
    \/ \E t \in Threads, op \in WorkerKeyGenOps, S \in (SUBSET WorkerIndices) \ {{}} :
          BeginKeyGen(t, op, S)
    \/ \E t \in Threads : FindTag(t)
    \/ \E t \in Threads : AssignEntry(t)
    \/ \E t \in Threads : MergeNext(t)
    \/ \E t \in Threads : ReadEntry(t)
    \/ \E t \in Threads : Return(t)

SpecThreads == Init /\ [][NextThreads]_vars

----------------------------------------------------------------------------
(* Properties of the calls made from two threads *)

\* thread r makes its lookup in this step
ReadStep(r) ==
    /\ threads[r].pc = "idle" /\ threads'[r].pc = "done"
    /\ threads'[r].op = "GetEvalAutomorphismKeyMap"
\* a key generation that no other key generation has overlapped so far
Undisturbed(frame) == InFlight(frame) /\ frame.alone
\* what the call of the frame adds: the indices it produced that were not cached before
AddedBy(frame) ==
    (DOMAIN frame.evalKeys) \ (IF frame.before = <<>> THEN {} ELSE DOMAIN frame.before[1])
\* `seen' is the entry before the call of the frame with the keys of the indices P added
BeforeWith(frame, P, seen) ==
    /\ seen # <<>>
    /\ DOMAIN seen[1] = P \cup (IF frame.before = <<>> THEN {} ELSE DOMAIN frame.before[1])
    /\ \A i \in P : seen[1][i] = frame.evalKeys[i]
    /\ frame.before # <<>> => \A i \in DOMAIN frame.before[1] : seen[1][i] = frame.before[1][i]
\* `seen' is the entry as the whole call of the frame leaves it
FullyMerged(frame, seen) == BeforeWith(frame, AddedBy(frame), seen)

BothFinished(a, b) == a # b /\ Finished(threads[a]) /\ Finished(threads[b])
\* the indices the two calls produced
ProducedByBoth(a, b) == (DOMAIN threads[a].evalKeys) \cup (DOMAIN threads[b].evalKeys)
\* the indices cached for the tag
CachedIndices == IF WorkerTag \in DOMAIN evalAutomorphismKeyMap
                 THEN DOMAIN evalAutomorphismKeyMap[WorkerTag] ELSE {}

\* C29: two key generations for one tag that the caller serialized, in either order,
\* leave every index either of them produced in the cache; two that overlapped leave
\* no index that neither produced nor was cached before them, and may leave fewer than
\* the union (the witness: both found no entry and both assigned their whole map).
C29_SerializedKeepsUnion ==
    \A a \in Threads, b \in Threads :
        BothFinished(a, b) =>
            /\ (threads[a].alone /\ threads[b].alone) => ProducedByBoth(a, b) \subseteq CachedIndices
            /\ CachedIndices \subseteq
                   ProducedByBoth(a, b)
                     \cup (IF threads[a].before = <<>> THEN {} ELSE DOMAIN threads[a].before[1])
                     \cup (IF threads[b].before = <<>> THEN {} ELSE DOMAIN threads[b].before[1])

\* two key generations ran with no lock, both found no entry for the tag and both
\* assigned their map: the cache holds less than the two produced
C29_Witness ==
    \E a \in Threads, b \in Threads :
        /\ BothFinished(a, b)
        /\ ~threads[a].alone /\ ~threads[b].alone
        /\ ~threads[a].found /\ ~threads[b].found
        /\ CachedIndices # ProducedByBoth(a, b)
        /\ CachedIndices \subseteq ProducedByBoth(a, b)
        /\ CachedIndices = DOMAIN threads[b].evalKeys

----------------------------------------------------------------------------
(* The denominators of the Lagrange coefficients, for every pair of parties *)

\* den_nativeint.ModInverse(modq_k) (the ring library's): <<the inverse>>, or <<>> where
\* there is none
InverseIfAny(a, q) ==
    IF \E x \in 0..(q - 1) : (a * x) % q = 1 THEN <<ModInverse(a, q)>> ELSE <<>>

\* RecoverSharedKey as far as one denominator: the test of N against the limb moduli,
\* then denominator, denom_positive and denom_inv for parties i and j in limb k
InvertDenominator(N, i, j, k) ==
    LET c == [NoCall EXCEPT !.op = "RecoverSharedKey:denominator", !.N = N]
        denominator == i - j
        denom_positive == DenomPositive(denominator, k)
        denom_inv == InverseIfAny(denom_positive, Moduli[k])
    IN
    IF \E l \in Limbs : N >= Moduli[l]
    THEN Throw(c, "not_implemented_error")
    ELSE /\ call' = [c EXCEPT !.err = IF denom_inv = <<>> THEN "math_error" ELSE "none",
                              !.ret = <<[i |-> i, j |-> j, k |-> k,
                                         denom_positive |-> denom_positive,
                                         denom_inv |-> denom_inv]>>]
         /\ UNCHANGED <<registry, plaintext, threads, shared>>

NextDenominators ==
    \E N \in 2..Moduli[1], k \in Limbs :
        \E i \in 1..N, j \in 1..N : i # j /\ InvertDenominator(N, i, j, k)

SpecDenominators == Init /\ [][NextDenominators]_vars

\* C30: whenever RecoverSharedKey gets as far as a denominator (N is below every limb
\* modulus), for any two different parties i, j of 1..N and any limb of modulus m the
\* denominator is i - j reduced into 0..m-1, it is not zero, and it has an inverse
\* modulo m, which is the value the inversion returns.
C30_DenominatorsInvertible ==
    (call.op = "RecoverSharedKey:denominator" /\ call.err # "not_implemented_error") =>
        LET d == call.ret[1]
            m == Moduli[d.k]
        IN /\ \A l \in Limbs : call.N < Moduli[l]
           /\ d.denom_positive = (d.i - d.j) % m
           /\ d.denom_positive \in 1..(m - 1)
           /\ call.err = "none"
           /\ d.denom_inv # <<>>
           /\ (d.denom_positive * d.denom_inv[1]) % m = 1

\* the denominator of the two parties farthest apart, the difference negative, among
\* as many parties as the smaller modulus allows, has been inverted
C30_Witness ==
    /\ call.op = "RecoverSharedKey:denominator" /\ call.err = "none"
    /\ call.N = Moduli[2] - 1
    /\ call.ret[1].i = 1 /\ call.ret[1].j = call.N /\ call.ret[1].k = 2
    /\ call.ret[1].denom_positive = 2
    /\ call.ret[1].denom_inv = <<7>>

----------------------------------------------------------------------------
(* The values of the Shamir shares *)

\* the coefficients whose transform in limb k is values: the element in coefficient
\* representation
CoefficientsOf(values, k) ==
    CHOOSE c \in [Slots -> 0..(Moduli[k] - 1)] : ForwardTransform(c, k) = values

\* c[0] + c[1] * i + ... + c[n] * i^n over the integers
RECURSIVE PolynomialAt(_, _, _)
PolynomialAt(c, n, i) ==
    IF n = 0 THEN c[0] ELSE PolynomialAt(c, n - 1, i) + c[n] * i ^ n

\* the shares are those of the coefficients drawn with seed: for every party, limb and
\* slot the polynomial at the party's index, modulo the limb's modulus
SharesOfSeed(seed) ==
    LET SecretShares == call.ret[1]
        t == call.threshold
        secret == Deref(call.sk).element
        c(k, l) == [d \in 0..(t - 1) |->
                       IF d = 0 THEN CoefficientsOf(secret.limbs[k], k)[l]
                       ELSE Dug(seed, d, "COEFFICIENT").limbs[k][l]]
    IN \A i \in DOMAIN SecretShares :
           /\ SecretShares[i].format = "COEFFICIENT"
           /\ \A k \in Limbs, l \in Slots :
                  SecretShares[i].limbs[k][l] = PolynomialAt(c(k, l), t - 1, i) % Moduli[k]

\* C31: a ShareKeys in shamir mode that returns gives every party of 1..N but the sharer a
\* share, in coefficient representation, whose value in every limb k and slot l is
\* (sum over d = 0..t-1 of c_d[k][l] * i^d) mod m_k, c_0 the secret in coefficient
\* representation and c_1 .. c_(t-1) the drawn coefficients.
C31_ShamirShareValues ==
    (call.op = "ShareKeys" /\ call.shareType = "shamir" /\ call.err = "none") =>
        /\ DOMAIN call.ret[1] = (1..call.N) \ {call.index}
        /\ \E seed \in Seeds : SharesOfSeed(seed)

\* a polynomial of degree two or more has been evaluated for four parties, and the
\* squares of the indices matter: the share of party 3 is not its share under the
\* first power alone
C31_Witness ==
    /\ call.op = "ShareKeys" /\ call.shareType = "shamir" /\ call.err = "none"
    /\ call.N = 5 /\ call.threshold >= 3 /\ call.index = 2
    /\ \A seed \in Seeds :
          call.ret[1][3] #
              ShamirEvaluationOfFirstPower(
                  ShamirPolynomial(Deref(call.sk).element, call.threshold, seed),
                  call.threshold, 3)

----------------------------------------------------------------------------
(* Loading keys and looking them up *)

NextLoad == NextInsert \/ Lookup

SpecLoad == Init /\ [][NextLoad]_vars

InsertOps == {"InsertEvalMultKey", "InsertEvalSumKey", "InsertEvalAutomorphismKey"}
InsertStoreOf(op, mult, sum, automorphism) ==
    IF op = "InsertEvalMultKey" THEN mult
    ELSE IF op = "InsertEvalSumKey" THEN sum
    ELSE automorphism
LookupOf(op) ==
    IF op = "InsertEvalMultKey" THEN "GetEvalMultKeyVector"
    ELSE IF op = "InsertEvalSumKey" THEN "GetEvalSumKeyMap"
    ELSE "GetEvalAutomorphismKeyMap"

\* C32: an insert of a vector or map that holds a key leaves, under the tag of its first
\* key (element 0 of a vector, the lowest index of a map), exactly what was supplied,
\* whatever was there before (nothing of the entry before is kept, in the automorphism
\* keys as in the others), and leaves the entries of the other tags as they were; the
\* lookup of that tag that follows returns what was supplied; an insert of an empty
\* summation map leaves the summation keys as they were.
C32_InsertReplaces ==
    [][ /\ (call'.op \in InsertOps /\ DOMAIN call'.keys # {}) =>
              LET supplied == call'.keys
                  keyTag == supplied[Min(DOMAIN supplied)].tag
                  before == InsertStoreOf(call'.op, evalMultKeyMap, evalSumKeyMap,
                                          evalAutomorphismKeyMap)
                  after == InsertStoreOf(call'.op, evalMultKeyMap', evalSumKeyMap',
                                         evalAutomorphismKeyMap')
              IN /\ call'.err = "none"
                 /\ DOMAIN after = (DOMAIN before) \cup {keyTag}
                 /\ after[keyTag] = supplied
                 /\ \A t \in (DOMAIN before) \ {keyTag} : after[t] = before[t]
        /\ (/\ call.op \in InsertOps /\ DOMAIN call.keys # {}
            /\ call'.op = LookupOf(call.op)
            /\ call'.keyID = call.keys[Min(DOMAIN call.keys)].tag) =>
              (call'.err = "none" /\ call'.ret = <<call.keys>>)
        /\ (call'.op = "InsertEvalSumKey" /\ DOMAIN call'.keys = {}) =>
              (call'.err = "none" /\ evalSumKeyMap' = evalSumKeyMap)
      ]_vars

\* a map of one index has just been inserted over an automorphism entry of its tag:
\* the key of that entry (the serial below the inserted key's, which was in use when
\* the map was made) is in no store any more
C32_Witness ==
    /\ call.op = "InsertEvalAutomorphismKey" /\ call.err = "none"
    /\ DOMAIN call.keys = {MaxIndex}
    /\ call.keys[MaxIndex].serial = 2
    /\ evalAutomorphismKeyMap = [t \in {call.keys[MaxIndex].tag} |-> call.keys]
    /\ evalMultKeyMap = EmptyMap /\ evalSumKeyMap = EmptyMap

----------------------------------------------------------------------------
(* Clearing: all, by tag and by context, over entries of keys of any context *)

\* the vectors and maps a caller hands in whose keys were produced by any context (no
\* insert looks at the context of a key)
VectorsOfAnyContext ==
    UNION {{[i \in 1..n |-> [tag |-> t, cc |-> ccs[i], serial |-> FreshSerial]] :
                t \in KeyTags, ccs \in [1..n -> Contexts]} : n \in 1..MaxChain}
MapsOfAnyContext ==
    UNION {{[i \in S |-> [tag |-> t, cc |-> ccs[i], serial |-> FreshSerial]] :
                t \in KeyTags, ccs \in [S -> Contexts]} : S \in (SUBSET Indices) \ {{}}}

InsertOfAnyContext ==
    /\ CanAllocate
    /\ \/ \E vectorToInsert \in VectorsOfAnyContext : InsertEvalMultKey(vectorToInsert)
       \/ \E mapToInsert \in MapsOfAnyContext : InsertEvalSumKey(mapToInsert)
       \/ \E mapToInsert \in MapsOfAnyContext : InsertEvalAutomorphismKey(mapToInsert)

NextClear == InsertOfAnyContext \/ InsertRaw \/ GenerateAnyNumber \/ Clear \/ ClearOfContext

SpecClear == Init /\ [][NextClear]_vars

ClearAllOps == {"ClearEvalMultKeys", "ClearEvalSumKeys", "ClearEvalAutomorphismKeys"}
ClearByTagOps == {"ClearEvalMultKeys(id)", "ClearEvalSumKeys(id)",
                  "ClearEvalAutomorphismKeys(id)"}
ClearByContextOps == {"ClearEvalMultKeys(cc)", "ClearEvalSumKeys(cc)",
                      "ClearEvalAutomorphismKeys(cc)"}
ClearedStore(op, mult, sum, automorphism) ==
    IF op \in {"ClearEvalMultKeys", "ClearEvalMultKeys(id)", "ClearEvalMultKeys(cc)"} THEN mult
    ELSE IF op \in {"ClearEvalSumKeys", "ClearEvalSumKeys(id)", "ClearEvalSumKeys(cc)"} THEN sum
    ELSE automorphism

\* the entries of `before' other than those of `removed' are in `after' as they were,
\* and nothing else is
RemovesExactly(before, after, removed) ==
    /\ DOMAIN after = (DOMAIN before) \ removed
    /\ \A t \in DOMAIN after : after[t] = before[t]

\* the entries whose first stored key was produced by context cc
FirstKeyOf(store, cc) ==
    {t \in DOMAIN store : DOMAIN store[t] # {} /\ FirstKey(store[t]).cc = cc}

\* C33: a clear of all leaves its store empty; a clear by tag removes the entry of that
\* tag and no other, and does nothing, with no error, when there is none; a clear by
\* context removes exactly the entries whose first stored key was produced by that
\* context, whatever produced the later keys, and keeps every other entry.
C33_ClearRemovesExactly ==
    [][ LET before == ClearedStore(call'.op, evalMultKeyMap, evalSumKeyMap,
                                   evalAutomorphismKeyMap)
            after == ClearedStore(call'.op, evalMultKeyMap', evalSumKeyMap',
                                  evalAutomorphismKeyMap')
        IN /\ call'.op \in ClearAllOps => (call'.err = "none" /\ after = EmptyMap)
           /\ call'.op \in ClearByTagOps =>
                 (call'.err = "none" /\ RemovesExactly(before, after, {call'.keyID}))
           /\ call'.op \in ClearByContextOps =>
                 (call'.err = "none" /\ RemovesExactly(before, after, FirstKeyOf(before, call'.cc)))
      ]_vars

----------------------------------------------------------------------------
(* EvalMerge and the later elements of its vector *)

\* C34: EvalMerge validates and takes the tag of element 0 only.  Whenever element 0 is
\* a ciphertext of this context and the automorphism keys hold an entry for its tag,
\* the call throws nothing and hands the backend, once, the whole vector and that
\* entry, whatever the later elements are: of another tag, of another context, or null.
C34_MergeReadsFirstOnly ==
    [][ (/\ call'.op = "EvalMerge"
         /\ Owned(call'.cts[1])
         /\ Deref(call'.cts[1]).tag \in DOMAIN evalAutomorphismKeyMap) =>
          /\ call'.err = "none"
          /\ Len(call'.backend) = 1
          /\ call'.backend[1].fn = "EvalMerge"
          /\ call'.backend[1].cts = call'.cts
          /\ call'.backend[1].passed = <<evalAutomorphismKeyMap[Deref(call'.cts[1]).tag]>>
      ]_vars

\* a vector whose second ciphertext is of another context and another tag than the first
\* has been handed to the backend with the keys of the first one's tag
C34_Witness ==
    /\ call.op = "EvalMerge" /\ call.err = "none"
    /\ Len(call.cts) = 2 /\ Owned(call.cts[1]) /\ Foreign(call.cts[2])
    /\ Deref(call.cts[2]).tag # Deref(call.cts[1]).tag
    /\ Len(call.backend) = 1 /\ call.backend[1].cts = call.cts
    /\ call.backend[1].passed = <<evalAutomorphismKeyMap[Deref(call.cts[1]).tag]>>

----------------------------------------------------------------------------
(* A share type that is neither "additive" nor "shamir" *)

\* the conditions on N and threshold that both methods test
ParametersPass(N, threshold) ==
    /\ N >= 2
    /\ 2 * threshold > N
    /\ \A k \in Limbs : N < Moduli[k]

\* C35: with a share type other than "additive" and "shamir", a ShareKeys that gets past
\* the tests of N, threshold and the moduli returns an empty map, and a RecoverSharedKey
\* that gets past them (it has a key and threshold shares or more, which it tests
\* first) returns with the key it was handed as it was; neither throws.
C35_UnknownShareType ==
    (/\ call.shareType \notin {"additive", "shamir"}
     /\ ParametersPass(call.N, call.threshold)) =>
        /\ call.op = "ShareKeys" => (call.err = "none" /\ call.ret = <<EmptyMap>>)
        /\ (/\ call.op = "RecoverSharedKey"
            /\ call.sk # nullptr
            /\ Cardinality(DOMAIN call.shares) >= call.threshold) =>
              (call.err = "none" /\ call.target = call.sk)

\* RecoverSharedKey has returned from a call with two shares of parties among three, a
\* threshold of two and a share type it does not know
C35_Witness ==
    /\ call.op = "RecoverSharedKey" /\ call.shareType = "other" /\ call.err = "none"
    /\ call.N = 3 /\ call.threshold = 2
    /\ DOMAIN call.shares = {1, 2, 4}
    /\ call.target = call.sk /\ call.sk # nullptr

----------------------------------------------------------------------------
(* The three stores side by side: every key generation, insert and clear, and *)
(* one map object in two stores                                               *)

\* InsertEvalAutomorphismKey(GetAllEvalSumKeys()[keyTag]): the shared_ptr the summation
\* keys hold for keyTag is handed in, and the automorphism keys hold the same map
InsertEvalAutomorphismKeyOfSummationEntry(keyTag) ==
    /\ keyTag \in DOMAIN evalSumKeyMap
    /\ DOMAIN evalSumKeyMap[keyTag] # {}
    /\ FirstKey(evalSumKeyMap[keyTag]).tag = keyTag
    /\ evalAutomorphismKeyMap' = Put(evalAutomorphismKeyMap, keyTag, evalSumKeyMap[keyTag])
    /\ shared' = shared \cup {keyTag}
    /\ call' = [NoCall EXCEPT !.op = "InsertEvalAutomorphismKey",
                              !.keys = evalSumKeyMap[keyTag]]
    /\ UNCHANGED <<evalMultKeyMap, evalSumKeyMap, plaintext, threads>>

InsertStored == \E keyTag \in KeyTags : InsertEvalAutomorphismKeyOfSummationEntry(keyTag)

\* every key generation, with a key of this context and no public key
GenerateEach ==
    \E sk \in OwnPrivateKeys :
        \/ EvalMultKeyGen(sk)
        \/ EvalMultKeysGen(sk)
        \/ EvalSumKeyGen(sk, nullptr)
        \/ EvalSumRowsKeyGen(sk, nullptr)
        \/ EvalSumColsKeyGen(sk, nullptr)
        \/ \E indexList \in SUBSET Indices : EvalAtIndexKeyGen(sk, indexList, nullptr)
        \/ EvalBootstrapKeyGen(sk)
        \/ EvalCKKStoFHEWKeyGen(sk)
        \/ EvalFHEWtoCKKSKeyGen(sk)
        \/ EvalSchemeSwitchingKeyGen(sk)

NextRegistry == GenerateEach \/ InsertRaw \/ InsertStored \/ Clear \/ ClearOfContext

SpecRegistry == Init /\ [][NextRegistry]_vars

MultiplicationStoreOps ==
    {"EvalMultKeyGen", "EvalMultKeysGen", "InsertEvalMultKey",
     "ClearEvalMultKeys", "ClearEvalMultKeys(id)", "ClearEvalMultKeys(cc)"}
SummationStoreOps ==
    {"EvalSumKeyGen", "InsertEvalSumKey",
     "ClearEvalSumKeys", "ClearEvalSumKeys(id)", "ClearEvalSumKeys(cc)"}
AutomorphismStoreOps ==
    AutomorphismKeyGenOps \cup
    {"InsertEvalAutomorphismKey",
     "ClearEvalAutomorphismKeys", "ClearEvalAutomorphismKeys(id)", "ClearEvalAutomorphismKeys(cc)"}
ReturningKeyGenOps == {"EvalSumRowsKeyGen", "EvalSumColsKeyGen"}

\* C36: a key generation, insert or clear of the multiplication keys leaves the
\* summation and the automorphism keys as they were; one of the summation keys leaves
\* the other two as they were; one of the automorphism keys (EvalAtIndexKeyGen, the
\* bootstrap and scheme-switching key generations, the insert, the clears) leaves the
\* other two as they were; EvalSumRowsKeyGen and EvalSumColsKeyGen return the map the
\* backend made and leave all three as they were.
C36_StoreIndependence ==
    [][ /\ call'.op \in MultiplicationStoreOps =>
              (evalSumKeyMap' = evalSumKeyMap /\ evalAutomorphismKeyMap' = evalAutomorphismKeyMap)
        /\ call'.op \in SummationStoreOps =>
              (evalMultKeyMap' = evalMultKeyMap /\ evalAutomorphismKeyMap' = evalAutomorphismKeyMap)
        /\ call'.op \in AutomorphismStoreOps =>
              (evalMultKeyMap' = evalMultKeyMap /\ evalSumKeyMap' = evalSumKeyMap)
        /\ call'.op \in ReturningKeyGenOps =>
              /\ registry' = registry
              /\ call'.err = "none" => call'.ret = <<call'.backend[1].out>>
      ]_vars

----------------------------------------------------------------------------
(* The calls that only read the stores: evaluations, getters and decryption *)

\* decryption reads no store: a few ciphertexts stand for all of them here
ReadingCiphertexts ==
    {nullptr,
     Ptr(Ciphertext(this, "tagA", "CKKS_PACKED_ENCODING", MaxTowers, MetadataOf(MaxTowers))),
     Ptr(Ciphertext(this, "tagA", "PACKED_ENCODING", 1, MetadataOf(1))),
     Ptr(Ciphertext("other", "tagA", "PACKED_ENCODING", 1, MetadataOf(1)))}

DecryptWhileKeysHeld ==
    \/ \E ct \in ReadingCiphertexts, sk \in DecryptKeys, slot \in BOOLEAN,
          result \in BackendResults : Decrypt(ct, sk, slot, result)
    \/ \E cts \in {<<>>} \cup {<<ct>> : ct \in ReadingCiphertexts}, slot \in BOOLEAN,
          result \in BackendResults : MultipartyDecryptFusion(cts, slot, result)

NextReading == FillRegistry \/ Evaluation \/ Lookup \/ DecryptWhileKeysHeld

SpecReading == Init /\ [][NextReading]_vars

\* C37: no evaluation method, no getter, and neither Decrypt nor
\* MultipartyDecryptFusion changes any of the three stores: after the call, whether it
\* returned or threw, every store holds the entries and the keys it held before.
C37_ReadOnlyCalls ==
    [][ call'.op \in (EvaluationOps \cup LookupOps \cup DecryptOps) =>
          /\ evalMultKeyMap' = evalMultKeyMap
          /\ evalSumKeyMap' = evalSumKeyMap
          /\ evalAutomorphismKeyMap' = evalAutomorphismKeyMap
      ]_vars

\* an evaluation has just failed for want of the automorphism keys of its ciphertext's
\* tag while the summation and multiplication keys of that tag are held, and no entry
\* for the tag has appeared
C37_Witness ==
    /\ call.op = "EvalAtIndex" /\ call.err = "not_available_error"
    /\ Deref(call.cts[1]).tag \notin DOMAIN evalAutomorphismKeyMap
    /\ Deref(call.cts[1]).tag \in DOMAIN evalSumKeyMap
    /\ Deref(call.cts[1]).tag \in DOMAIN evalMultKeyMap

----------------------------------------------------------------------------
(* What Decrypt does with a valid result *)

\* the places of the decode steps among the backend calls of a call
DecodeSteps(c) == {i \in DOMAIN c.backend : c.backend[i].fn = "Decode"}

\* C38: when the backend's result is valid, Decrypt returns it and the plaintext it
\* delivers carries the result's scalingFactorInt.  For CKKS_PACKED_ENCODING the
\* plaintext's noise degree, level, scaling factor and slots are the ciphertext's, and
\* the decode with the noise degree, the scaling factor, the scaling technique and the
\* execution mode is called once, on a plaintext that holds them already; for another
\* encoding the plain decode is called once.  The decode is the last call made, and
\* what the caller's pointer receives is the plaintext as decoded.
C38_DecryptPostProcessing ==
    [][ (/\ call'.op = "Decrypt"
         /\ call'.backend # <<>>
         /\ call'.backend[1].out.isValid) =>
          LET ct == MetadataSource(call')
              result == call'.backend[1].out
              last == Len(call'.backend)
              decode == call'.backend[last]
              delivered == Deref(plaintext')
          IN /\ call'.err = "none" /\ call'.ret = <<result>>
             /\ DecodeSteps(call') = {last} /\ last = 2
             /\ plaintext' # nullptr
             /\ delivered.scalingFactorInt = result.scalingFactorInt
             /\ decode.out.scalingFactorInt = result.scalingFactorInt
             /\ ~decode.out.decoded
             /\ delivered = [decode.out EXCEPT !.decoded = TRUE]
             /\ ct.encoding = "CKKS_PACKED_ENCODING" =>
                   /\ decode.passed = <<ct.noiseScaleDeg, ct.scalingFactor,
                                        ScalingTechnique, ExecutionMode>>
                   /\ \A pt \in {decode.out, delivered} :
                         /\ pt.noiseScaleDeg = ct.noiseScaleDeg
                         /\ pt.level = ct.level
                         /\ pt.scalingFactor = ct.scalingFactor
                         /\ pt.slots = ct.slots
             /\ ct.encoding # "CKKS_PACKED_ENCODING" => decode.passed = <<>>
      ]_vars

\* a CKKS ciphertext of two limbs has been decrypted with a valid result: the plaintext
\* delivered is decoded and carries the ciphertext's metadata, none of it the value a
\* new plaintext has
C38_Witness ==
    /\ call.op = "Decrypt" /\ call.err = "none" /\ Len(call.backend) = 2
    /\ call.backend[1].out.isValid
    /\ MetadataSource(call).encoding = "CKKS_PACKED_ENCODING"
    /\ MetadataSource(call).towers = 2
    /\ plaintext # nullptr /\ Deref(plaintext).decoded
    /\ Deref(plaintext).level = MetadataSource(call).level
    /\ Deref(plaintext).slots = MetadataSource(call).slots
    /\ Deref(plaintext).slots # MakePlaintext("CKKS_PACKED_ENCODING", "Poly").slots
    /\ Deref(plaintext).scalingFactorInt = 3

----------------------------------------------------------------------------
(* EvalSumRows and EvalSumCols: the caller's key maps *)

\* C39: EvalSumRows on a ciphertext of this context throws nothing, whatever the stores
\* hold, and hands the backend the ciphertext and the map its caller supplied.
\* EvalSumCols on a ciphertext of this context hands the backend the stored summation
\* entry of the ciphertext's tag and then the map its caller supplied; when the
\* summation keys hold no entry for the tag it throws not_available_error and calls no
\* backend, whatever the caller supplied.
C39_CallerSuppliedMaps ==
    [][ /\ (call'.op = "EvalSumRows" /\ Owned(call'.cts[1])) =>
              /\ call'.err = "none"
              /\ Len(call'.backend) = 1
              /\ call'.backend[1].fn = "EvalSumRows"
              /\ call'.backend[1].cts = call'.cts
              /\ call'.backend[1].passed = call'.keys
        /\ (call'.op = "EvalSumCols" /\ Owned(call'.cts[1])) =>
              LET keyTag == Deref(call'.cts[1]).tag IN
              IF keyTag \in DOMAIN evalSumKeyMap
              THEN /\ call'.err = "none"
                   /\ Len(call'.backend) = 1
                   /\ call'.backend[1].fn = "EvalSumCols"
                   /\ call'.backend[1].cts = call'.cts
                   /\ call'.backend[1].passed = <<evalSumKeyMap[keyTag], call'.keys[1]>>
              ELSE /\ call'.err = "not_available_error"
                   /\ call'.backend = <<>>
      ]_vars

\* EvalSumRows has handed the backend its caller's keys for a ciphertext of this
\* context while none of the three stores held a key
C39_Witness ==
    /\ call.op = "EvalSumRows" /\ call.err = "none" /\ Owned(call.cts[1])
    /\ Len(call.backend) = 1 /\ call.backend[1].passed = call.keys
    /\ DOMAIN call.keys[1] # {}
    /\ evalMultKeyMap = EmptyMap /\ evalSumKeyMap = EmptyMap /\ evalAutomorphismKeyMap = EmptyMap

====
